---- MODULE Spec2Model ----
(***************************************************************************)
(* LexiBot RAG: the structural chunker (chunker.py), the hybrid vector     *)
(* store (vector_store.py) and the pipeline around them (rag_pipeline.py). *)
(*                                                                         *)
(* Texts are sequences of one-character strings.  Positions are Python's   *)
(* 0-based offsets; PySlice and rfind follow Python's slice rules,         *)
(* negative indices included.                                              *)
(*                                                                         *)
(* Scale.  The size thresholds of config.py (1500 / 200 / 100 characters)  *)
(* and the 200-character fingerprint are kept as named constants with      *)
(* small values in the same order (MIN < OVERLAP < MAX, OVERLAP + 1 < MAX),*)
(* and a structural header ("TITRE I -", "CHAPITRE 2:", "Section 1.",      *)
(* "Sous-section 1:", "Article 5:") is one marker character (T, C, S, U,   *)
(* A) at the start of a line, so that whole documents fit in a model value.*)
(***************************************************************************)
EXTENDS Integers, Sequences, FiniteSets, TLC

\* ------------------------------------------------------------------------
\* config.py (scaled, see above)
MAX_CHUNK_SIZE == 8
CHUNK_OVERLAP == 4
MIN_CHUNK_SIZE == 3

\* ------------------------------------------------------------------------
\* Python string primitives
Whitespace == {" ", "\n"}

RECURSIVE lstrip(_)
lstrip(s) ==
    IF s # <<>> /\ Head(s) \in Whitespace THEN lstrip(Tail(s)) ELSE s

RECURSIVE rstrip(_)
rstrip(s) ==
    IF s # <<>> /\ s[Len(s)] \in Whitespace
    THEN rstrip(SubSeq(s, 1, Len(s) - 1)) ELSE s

strip(s) == rstrip(lstrip(s))

\* a slice bound i of a string of length n, as Python normalises it
SliceIndex(i, n) ==
    IF i < 0 THEN (IF i + n < 0 THEN 0 ELSE i + n)
    ELSE (IF i > n THEN n ELSE i)

\* s[a:b]
PySlice(s, a, b) ==
    SubSeq(s, SliceIndex(a, Len(s)) + 1, SliceIndex(b, Len(s)))

SetMax(S) == CHOOSE m \in S : \A x \in S : x <= m

\* text.rfind(sep, start, end): the highest offset at which sep lies within
\* text[start:end], or -1
rfind(text, sep, start, end) ==
    LET a == SliceIndex(start, Len(text))
        b == SliceIndex(end, Len(text))
        hits == {p \in a .. (b - Len(sep)) :
                    SubSeq(text, p + 1, p + Len(sep)) = sep}
    IN  IF hits = {} THEN -1 ELSE SetMax(hits)

\* ------------------------------------------------------------------------
\* chunker._split_long_chunk
SEPARATORS ==
    << <<".", " ">>, <<".", "\n">>, <<";", "\n">>, <<"\n", "\n">>, <<"\n">> >>

\* the for-loop over the separators, from separator i on
RECURSIVE LastBreakFrom(_, _, _, _, _)
LastBreakFrom(text, start, end, i, last_break) ==
    IF i > Len(SEPARATORS) THEN last_break
    ELSE LET sep == SEPARATORS[i]
             pos == rfind(text, sep, start, end)
         IN  LastBreakFrom(text, start, end, i + 1,
                 IF pos > last_break THEN pos + Len(sep) ELSE last_break)

\* the value of `end` when the window text[start:end] is cut
\* a window one character wider than MAX_CHUNK_SIZE, never moved to a break
WindowEndWide(text, start) == start + MAX_CHUNK_SIZE + 1

WindowEnd(text, start) ==
    LET end == start + MAX_CHUNK_SIZE
    IN  IF end < Len(text)
        THEN LET last_break == LastBreakFrom(text, start, end, 1, -1)
             IN  IF last_break > start THEN last_break ELSE end
        ELSE end

\* the value of `start` for the next iteration
NextStart(text, start) ==
    LET end == WindowEnd(text, start)
    IN  IF end < Len(text) THEN end - CHUNK_OVERLAP ELSE end

\* the sub-chunks one iteration appends (none when the piece is too short)
WindowSubChunks(chunk, start) ==
    LET sub_text == strip(PySlice(chunk.text, start, WindowEnd(chunk.text, start)))
    IN  IF Len(sub_text) >= MIN_CHUNK_SIZE
        THEN << [text |-> sub_text,
                 metadata |-> [chunk.metadata EXCEPT !.sub_chunk = TRUE]] >>
        ELSE << >>

\* The while-loop run to its end.  The loop's only state besides the list is
\* `start`, so a value of `start` seen twice means the loop never exits:
\* returns = FALSE then, and sub_chunks is what one pass of the cycle built.
RECURSIVE SplitLoop(_, _, _, _)
SplitLoop(chunk, start, sub_chunks, visited) ==
    IF ~(start < Len(chunk.text))
    THEN [returns |-> TRUE, sub_chunks |-> sub_chunks]
    ELSE IF start \in visited
    THEN [returns |-> FALSE, sub_chunks |-> sub_chunks]
    ELSE SplitLoop(chunk, NextStart(chunk.text, start),
                   sub_chunks \o WindowSubChunks(chunk, start),
                   visited \cup {start})

_split_long_chunk(chunk) == SplitLoop(chunk, 0, << >>, {})

\* ------------------------------------------------------------------------
\* chunker.STRUCTURE_PATTERNS, in priority order: <<marker, level>>
STRUCTURE_PATTERNS ==
    << <<"T", "titre">>, <<"C", "chapitre">>, <<"S", "section">>,
       <<"U", "sous_section">>, <<"A", "article">> >>

\* the level of the first pattern that matches the stripped line, "" if none
RECURSIVE MatchFrom(_, _)
MatchFrom(line, i) ==
    IF i > Len(STRUCTURE_PATTERNS) THEN ""
    ELSE IF line # <<>> /\ Head(line) = STRUCTURE_PATTERNS[i][1]
    THEN STRUCTURE_PATTERNS[i][2]
    ELSE MatchFrom(line, i + 1)

MatchLevel(line) == MatchFrom(line, 1)

\* full_text.split('\n') with the running `pos` of each line
RECURSIVE LinesFrom(_, _, _)
LinesFrom(text, from, cur) ==
    \* from: offset of the current line's start; cur: offset being scanned
    IF cur >= Len(text)
    THEN << [position |-> from, line |-> PySlice(text, from, Len(text))] >>
    ELSE IF text[cur + 1] = "\n"
    THEN << [position |-> from, line |-> PySlice(text, from, cur)] >>
         \o LinesFrom(text, cur + 1, cur + 1)
    ELSE LinesFrom(text, from, cur + 1)

Lines(text) == LinesFrom(text, 0, 0)

RECURSIVE DelimitersOf(_)
DelimitersOf(lines) ==
    IF lines = << >> THEN << >>
    ELSE LET l == Head(lines)
             level == MatchLevel(strip(l.line))
         IN  (IF level # ""
              THEN << [position |-> l.position, level |-> level,
                       header |-> strip(l.line)] >>
              ELSE << >>) \o DelimitersOf(Tail(lines))

Delimiters(full_text) == DelimitersOf(Lines(full_text))

\* chunker._find_page_number
RECURSIVE FindPageFrom(_, _, _, _)
FindPageFrom(position, page_map, i, page_num) ==
    IF i > Len(page_map) THEN page_num
    ELSE IF position >= page_map[i].start_pos
    THEN FindPageFrom(position, page_map, i + 1, page_map[i].page_number)
    ELSE page_num

_find_page_number(position, page_map) == FindPageFrom(position, page_map, 1, 1)

SourceOf(page_map) == IF page_map # << >> THEN page_map[1].source ELSE "inconnu"

\* " > ".join(parts)
RECURSIVE Join(_)
Join(parts) ==
    IF parts = << >> THEN << >>
    ELSE IF Len(parts) = 1 THEN parts[1]
    ELSE parts[1] \o <<" ", ">", " ">> \o Join(Tail(parts))

\* the hierarchical context after delimiter delim is seen
\* a chapter header that leaves the section of the chapter before it in place
ContextAfterKeepingSection(ctx, delim) ==
    IF delim.level = "titre"
    THEN [titre |-> delim.header, chapitre |-> << >>, section |-> << >>]
    ELSE IF delim.level = "chapitre"
    THEN [ctx EXCEPT !.chapitre = delim.header]
    ELSE IF delim.level = "section"
    THEN [ctx EXCEPT !.section = delim.header]
    ELSE ctx

ContextAfter(ctx, delim) ==
    IF delim.level = "titre"
    THEN [titre |-> delim.header, chapitre |-> << >>, section |-> << >>]
    ELSE IF delim.level = "chapitre"
    THEN [ctx EXCEPT !.chapitre = delim.header, !.section = << >>]
    ELSE IF delim.level = "section"
    THEN [ctx EXCEPT !.section = delim.header]
    ELSE ctx

\* the chunk built for delimiter i (none when its text is empty)
StructureChunk(full_text, page_map, delimiters, i, ctx) ==
    LET delim == delimiters[i]
        start == delim.position
        end == IF i + 1 <= Len(delimiters)
               THEN delimiters[i + 1].position ELSE Len(full_text)
        chunk_text == strip(PySlice(full_text, start, end))
        context_parts ==
            (IF ctx.titre # << >> THEN << ctx.titre >> ELSE << >>)
            \o (IF ctx.chapitre # << >> THEN << ctx.chapitre >> ELSE << >>)
            \o (IF ctx.section # << >> /\ delim.level \notin {"titre", "chapitre"}
                THEN << ctx.section >> ELSE << >>)
        context_prefix == Join(context_parts)
        enriched_text ==
            IF context_prefix # << >>
            THEN <<"[">> \o context_prefix \o <<"]", "\n">> \o chunk_text
            ELSE chunk_text
    IN  IF chunk_text = << >> THEN << >>
        ELSE << [text |-> enriched_text,
                 metadata |->
                    [titre |-> ctx.titre,
                     chapitre |-> ctx.chapitre,
                     section |-> ctx.section,
                     article |-> IF delim.level = "article"
                                 THEN delim.header ELSE << >>,
                     level |-> delim.level,
                     page |-> _find_page_number(start, page_map),
                     source |-> SourceOf(page_map),
                     sub_chunk |-> FALSE]] >>

RECURSIVE StructureFrom(_, _, _, _, _)
StructureFrom(full_text, page_map, delimiters, i, ctx) ==
    IF i > Len(delimiters) THEN << >>
    ELSE LET ctx2 == ContextAfter(ctx, delimiters[i])
         IN  StructureChunk(full_text, page_map, delimiters, i, ctx2)
             \o StructureFrom(full_text, page_map, delimiters, i + 1, ctx2)

_split_by_structure(full_text, page_map) ==
    StructureFrom(full_text, page_map, Delimiters(full_text), 1,
                  [titre |-> << >>, chapitre |-> << >>, section |-> << >>])

\* re.split(r'\n\s*\n', full_text): a separator runs from a newline to the
\* last newline of the whitespace run it starts
LastNewline(text, i) ==
    \* i: 1-based index of a newline; the last newline of the whitespace run
    \* that follows it, 0 if the run holds none
    LET run == {j \in i + 1 .. Len(text) :
                   \A k \in i + 1 .. j : text[k] \in Whitespace}
        nls == {j \in run : text[j] = "\n"}
    IN  IF nls = {} THEN 0 ELSE SetMax(nls)

RECURSIVE ReSplitFrom(_, _, _)
ReSplitFrom(text, from, cur) ==
    \* from, cur: 1-based indices of the piece's start and of the scan
    IF cur > Len(text) THEN << SubSeq(text, from, Len(text)) >>
    ELSE IF text[cur] = "\n" /\ LastNewline(text, cur) # 0
    THEN << SubSeq(text, from, cur - 1) >>
         \o ReSplitFrom(text, LastNewline(text, cur) + 1,
                        LastNewline(text, cur) + 1)
    ELSE ReSplitFrom(text, from, cur + 1)

ReSplitParagraphs(text) == ReSplitFrom(text, 1, 1)

\* chunker._split_by_paragraphs
RECURSIVE ParagraphsFrom(_, _, _, _)
ParagraphsFrom(paragraphs, page_map, i, pos) ==
    IF i > Len(paragraphs) THEN << >>
    ELSE LET para == strip(paragraphs[i])
         IN  (IF Len(para) >= MIN_CHUNK_SIZE
              THEN << [text |-> para,
                       metadata |->
                          [titre |-> << >>, chapitre |-> << >>,
                           section |-> << >>, article |-> << >>,
                           level |-> "paragraphe",
                           page |-> _find_page_number(pos, page_map),
                           source |-> SourceOf(page_map),
                           sub_chunk |-> FALSE]] >>
              ELSE << >>)
             \o ParagraphsFrom(paragraphs, page_map, i + 1, pos + Len(para) + 2)

_split_by_paragraphs(full_text, page_map) ==
    ParagraphsFrom(ReSplitParagraphs(full_text), page_map, 1, 0)

\* chunk_document, lines 36-42: the concatenated buffer and its page map
RECURSIVE FullTextOf(_)
FullTextOf(pages) ==
    IF pages = << >> THEN << >>
    ELSE FullTextOf(SubSeq(pages, 1, Len(pages) - 1))
         \o pages[Len(pages)].text \o <<"\n", "\n">>

PageMapOf(pages) ==
    [i \in 1 .. Len(pages) |->
        [start_pos |-> Len(FullTextOf(SubSeq(pages, 1, i - 1))),
         page_number |-> pages[i].page_number,
         source |-> pages[i].source]]

\* chunk_document, lines 44-49
FALLBACK_BELOW == 3

\* the fallback taken one structural chunk later
BaseChunksLateFallback(pages) ==
    LET full_text == FullTextOf(pages)
        page_map == PageMapOf(pages)
        chunks == _split_by_structure(full_text, page_map)
    IN  IF Len(chunks) < FALLBACK_BELOW + 1
        THEN _split_by_paragraphs(full_text, page_map)
        ELSE chunks

BaseChunks(pages) ==
    LET full_text == FullTextOf(pages)
        page_map == PageMapOf(pages)
        chunks == _split_by_structure(full_text, page_map)
    IN  IF Len(chunks) < FALLBACK_BELOW
        THEN _split_by_paragraphs(full_text, page_map)
        ELSE chunks

\* chunk_document, lines 51-60; returns = FALSE when a split never ends
RECURSIVE PostProcess(_, _, _)
PostProcess(chunks, i, final_chunks) ==
    IF i > Len(chunks) THEN [returns |-> TRUE, chunks |-> final_chunks]
    ELSE IF Len(chunks[i].text) > MAX_CHUNK_SIZE
    THEN LET sub == _split_long_chunk(chunks[i])
         IN  IF sub.returns
             THEN PostProcess(chunks, i + 1, final_chunks \o sub.sub_chunks)
             ELSE [returns |-> FALSE, chunks |-> << >>]
    ELSE IF Len(chunks[i].text) >= MIN_CHUNK_SIZE
    THEN PostProcess(chunks, i + 1, Append(final_chunks, chunks[i]))
    ELSE PostProcess(chunks, i + 1, final_chunks)

chunk_document(pages) == PostProcess(BaseChunks(pages), 1, << >>)

\* ------------------------------------------------------------------------
\* config.py / vector_store.py constants.  Scores are integers: similarities
\* and normalised BM25 scores in 1/10000 (round(x, 4)), weights in tenths,
\* fused scores in 1/100000.
TOP_K_RESULTS == 20
SIMILARITY_THRESHOLD == 3000
SEMANTIC_WEIGHT == 6
BM25_WEIGHT == 4
\* r["text"][:200], scaled
FINGERPRINT_LEN == 6
\* len(word) >= 3, scaled
MIN_TOKEN_LEN == 2
\* batch_size = 100, scaled
BATCH_SIZE == 2

\* ------------------------------------------------------------------------
\* vector_store._tokenize_french
Lower(c) ==
    CASE c = "T" -> "t" [] c = "C" -> "c" [] c = "S" -> "s"
      [] c = "U" -> "u" [] c = "A" -> "a" [] OTHER -> c

WordChars == {"x", "t", "c", "s", "u", "a"}

\* text.lower(), then every character that is neither \w nor \s made a space
Normalised(text) ==
    [k \in 1 .. Len(text) |->
        IF Lower(text[k]) \in WordChars \cup Whitespace
        THEN Lower(text[k]) ELSE " "]

\* text.split(): the maximal runs of non-whitespace
RECURSIVE WordsFrom(_, _, _)
WordsFrom(text, k, word) ==
    IF k > Len(text) THEN (IF word = << >> THEN << >> ELSE << word >>)
    ELSE IF text[k] \in Whitespace
    THEN (IF word = << >> THEN << >> ELSE << word >>)
         \o WordsFrom(text, k + 1, << >>)
    ELSE WordsFrom(text, k + 1, Append(word, text[k]))

\* a filter that keeps the words of every length
KeepEveryWord(words) == words

RECURSIVE KeepLong(_)
KeepLong(words) ==
    IF words = << >> THEN << >>
    ELSE (IF Len(Head(words)) >= MIN_TOKEN_LEN THEN << Head(words) >> ELSE << >>)
         \o KeepLong(Tail(words))

_tokenize_french(text) == KeepLong(WordsFrom(Normalised(text), 1, << >>))

Range(f) == { f[k] : k \in DOMAIN f }

\* ------------------------------------------------------------------------
\* sorted(items, key=score, reverse=True): stable, equal scores keep their order
InsertByScore(sorted, x) ==
    LET ahead == { k \in 1 .. Len(sorted) : sorted[k].score >= x.score }
        at == IF ahead = {} THEN 0 ELSE SetMax(ahead)
    IN  SubSeq(sorted, 1, at) \o << x >> \o SubSeq(sorted, at + 1, Len(sorted))

RECURSIVE SortFrom(_, _, _)
SortFrom(items, k, sorted) ==
    IF k > Len(items) THEN sorted
    ELSE SortFrom(items, k + 1, InsertByScore(sorted, items[k]))

SortedByScore(items) == SortFrom(items, 1, << >>)

\* seq[:n], n >= 0
Take(seq, n) == SubSeq(seq, 1, IF n < Len(seq) THEN n ELSE Len(seq))

\* `n_results or TOP_K_RESULTS`
OrTopK(n_results) == IF n_results = 0 THEN TOP_K_RESULTS ELSE n_results

\* round(a / b, 4) in 1/10000, b > 0
Ratio4(a, b) == (2 * 10000 * a + b) \div (2 * b)

\* ------------------------------------------------------------------------
\* VectorStore._rebuild_bm25_index: the in-memory index over a collection
\* an index that misses the record added last
bm25_of_all_but_last(coll) ==
    IF Len(coll) <= 1
    THEN [built |-> FALSE, corpus |-> << >>, docs |-> << >>, metadatas |-> << >>]
    ELSE [built |-> TRUE,
          corpus |-> [k \in 1 .. Len(coll) - 1 |-> _tokenize_french(coll[k].text)],
          docs |-> [k \in 1 .. Len(coll) - 1 |-> coll[k].text],
          metadatas |-> [k \in 1 .. Len(coll) - 1 |-> coll[k].metadata]]

bm25_of(coll) ==
    IF Len(coll) = 0
    THEN [built |-> FALSE, corpus |-> << >>, docs |-> << >>, metadatas |-> << >>]
    ELSE [built |-> TRUE,
          corpus |-> [k \in 1 .. Len(coll) |-> _tokenize_french(coll[k].text)],
          docs |-> [k \in 1 .. Len(coll) |-> coll[k].text],
          metadatas |-> [k \in 1 .. Len(coll) |-> coll[k].metadata]]

\* identifiers that start at 0 in every call
NewRecordsFromZero(coll, chunks) ==
    [k \in 1 .. Len(chunks) |->
        [id |-> k - 1,
         text |-> chunks[k].text,
         metadata |-> chunks[k].metadata]]

\* VectorStore.add_documents, lines 104-117: the records of a call
NewRecords(coll, chunks) ==
    [k \in 1 .. Len(chunks) |->
        [id |-> Len(coll) + k - 1,
         text |-> chunks[k].text,
         metadata |-> chunks[k].metadata]]

\* lines 119-127 after `batches` whole batches were added
AfterBatches(coll, chunks, batches) ==
    coll \o Take(NewRecords(coll, chunks), batches * BATCH_SIZE)

BatchCount(chunks) == (Len(chunks) + BATCH_SIZE - 1) \div BATCH_SIZE

\* a semantic search over an index that returns the records in store order
search_in_store_order(coll, sem, n_results) ==
    IF Len(coll) = 0 THEN << >>
    ELSE LET n == OrTopK(n_results)
             first == Take([k \in 1 .. Len(coll) |->
                                [text |-> coll[k].text,
                                 metadata |-> coll[k].metadata,
                                 score |-> sem[coll[k].text]]],
                           IF n < Len(coll) THEN n ELSE Len(coll))
         IN  SelectSeq(first, LAMBDA r : r.score >= SIMILARITY_THRESHOLD)

\* VectorStore.search: sem[text] is 1 - distance of the query to text in
\* 1/10000; the index returns the nearest first, equal distances in store order
search(coll, sem, n_results) ==
    IF Len(coll) = 0 THEN << >>
    ELSE LET n == OrTopK(n_results)
             nearest == Take(SortedByScore(
                            [k \in 1 .. Len(coll) |->
                                [text |-> coll[k].text,
                                 metadata |-> coll[k].metadata,
                                 score |-> sem[coll[k].text]]]),
                            IF n < Len(coll) THEN n ELSE Len(coll))
         IN  SelectSeq(nearest, LAMBDA r : r.score >= SIMILARITY_THRESHOLD)

\* a lexical search that keeps the documents of score 0 too
search_bm25_keeping_zero(index, tokenized_query, raw, n_results) ==
    IF ~index.built \/ index.docs = << >> THEN << >>
    ELSE IF tokenized_query = << >> THEN << >>
    ELSE LET n == OrTopK(n_results)
             scored_indices == Take(SortedByScore(
                            [k \in 1 .. Len(index.docs) |->
                                [idx |-> k, score |-> raw[index.docs[k]]]]), n)
             max_score == IF scored_indices[1].score > 0
                          THEN scored_indices[1].score ELSE 1
             kept == SelectSeq(scored_indices, LAMBDA x : x.score >= 0)
         IN  [k \in 1 .. Len(kept) |->
                [text |-> index.docs[kept[k].idx],
                 metadata |-> index.metadatas[kept[k].idx],
                 score |-> Ratio4(kept[k].score, max_score)]]

\* VectorStore.search_bm25: raw[text] is the score get_scores gives a document
\* with that text
search_bm25(index, tokenized_query, raw, n_results) ==
    IF ~index.built \/ index.docs = << >> THEN << >>
    ELSE IF tokenized_query = << >> THEN << >>
    ELSE LET n == OrTopK(n_results)
             scored_indices == Take(SortedByScore(
                            [k \in 1 .. Len(index.docs) |->
                                [idx |-> k, score |-> raw[index.docs[k]]]]), n)
             max_score == IF scored_indices[1].score > 0
                          THEN scored_indices[1].score ELSE 1
             kept == SelectSeq(scored_indices, LAMBDA x : x.score > 0)
         IN  [k \in 1 .. Len(kept) |->
                [text |-> index.docs[kept[k].idx],
                 metadata |-> index.metadatas[kept[k].idx],
                 score |-> Ratio4(kept[k].score, max_score)]]

text_key(text) == PySlice(text, 0, FINGERPRINT_LEN)

KeyIndex(merged, key) ==
    LET at == { k \in 1 .. Len(merged) : merged[k].key = key }
    IN  IF at = {} THEN 0 ELSE CHOOSE k \in at : TRUE

\* merged[text_key] = value: a new key is appended, a known key keeps its place
DictSet(merged, key, value) ==
    LET entry == [key |-> key, text |-> value.text,
                  metadata |-> value.metadata, score |-> value.score]
    IN  IF KeyIndex(merged, key) = 0 THEN Append(merged, entry)
        ELSE [merged EXCEPT ![KeyIndex(merged, key)] = entry]

\* search_hybrid, lines 243-249
RECURSIVE MergeSemantic(_, _, _)
MergeSemantic(merged, results, k) ==
    IF k > Len(results) THEN merged
    ELSE MergeSemantic(
            DictSet(merged, text_key(results[k].text),
                    [text |-> results[k].text, metadata |-> results[k].metadata,
                     score |-> results[k].score * SEMANTIC_WEIGHT]),
            results, k + 1)

\* search_hybrid, lines 251-261
RECURSIVE MergeBm25(_, _, _)
MergeBm25(merged, results, k) ==
    IF k > Len(results) THEN merged
    ELSE LET key == text_key(results[k].text)
             at == KeyIndex(merged, key)
         IN  MergeBm25(
                IF at # 0
                THEN [merged EXCEPT ![at].score =
                            merged[at].score + results[k].score * BM25_WEIGHT]
                ELSE DictSet(merged, key,
                        [text |-> results[k].text,
                         metadata |-> results[k].metadata,
                         score |-> results[k].score * BM25_WEIGHT]),
                results, k + 1)

Values(merged) ==
    [k \in 1 .. Len(merged) |->
        [text |-> merged[k].text, metadata |-> merged[k].metadata,
         score |-> merged[k].score]]

\* a hybrid search that asks each search for n results only
search_hybrid_without_margin(coll, index, tokenized_query, sem, raw, n_results) ==
    LET n == OrTopK(n_results)
        semantic_results == search(coll, sem, n)
        bm25_results == search_bm25(index, tokenized_query, raw, n)
        merged == MergeBm25(MergeSemantic(<< >>, semantic_results, 1),
                            bm25_results, 1)
    IN  Take(SortedByScore(Values(merged)), n)

\* VectorStore.search_hybrid with the default weights
search_hybrid(coll, index, tokenized_query, sem, raw, n_results) ==
    LET n == OrTopK(n_results)
        fetch_n == n * 2
        semantic_results == search(coll, sem, fetch_n)
        bm25_results == search_bm25(index, tokenized_query, raw, fetch_n)
        merged == MergeBm25(MergeSemantic(<< >>, semantic_results, 1),
                            bm25_results, 1)
    IN  Take(SortedByScore(Values(merged)), n)

\* a merge that keeps the occurrence met first
RECURSIVE MergeQueryKeepingFirst(_, _, _)
MergeQueryKeepingFirst(all_results, results, k) ==
    IF k > Len(results) THEN all_results
    ELSE LET key == text_key(results[k].text)
             at == KeyIndex(all_results, key)
         IN  MergeQueryKeepingFirst(
                IF at = 0
                THEN DictSet(all_results, key, results[k])
                ELSE all_results,
                results, k + 1)

\* search_multi_query, lines 293-296, for the results of one query
RECURSIVE MergeQuery(_, _, _)
MergeQuery(all_results, results, k) ==
    IF k > Len(results) THEN all_results
    ELSE LET key == text_key(results[k].text)
             at == KeyIndex(all_results, key)
         IN  MergeQuery(
                IF at = 0 \/ results[k].score > all_results[at].score
                THEN DictSet(all_results, key, results[k])
                ELSE all_results,
                results, k + 1)

\* lines 290-296: per_query[k] is search_hybrid's result for queries[k]
RECURSIVE MergeQueries(_, _, _)
MergeQueries(all_results, per_query, k) ==
    IF k > Len(per_query) THEN all_results
    ELSE MergeQueries(MergeQuery(all_results, per_query[k], 1), per_query, k + 1)

\* lines 309-311
chapter_key(result) ==
    IF result.metadata.chapitre # << >> THEN result.metadata.chapitre
    ELSE IF result.metadata.article # << >> THEN result.metadata.article
    ELSE <<"unknown">>

\* lines 308-317: the first pass, from candidate k on
RECURSIVE FirstPass(_, _, _, _, _)
FirstPass(candidates, k, selected, seen_chapters, max_total) ==
    IF k > Len(candidates) THEN selected
    ELSE IF chapter_key(candidates[k]) \notin seen_chapters
    THEN IF Len(selected) + 1 >= max_total
         THEN Append(selected, candidates[k])
         ELSE FirstPass(candidates, k + 1, Append(selected, candidates[k]),
                        seen_chapters \cup {chapter_key(candidates[k])},
                        max_total)
    ELSE FirstPass(candidates, k + 1, selected, seen_chapters, max_total)

\* lines 321-325: the second pass, from candidate k on
RECURSIVE SecondPass(_, _, _, _)
SecondPass(candidates, k, selected, max_total) ==
    IF k > Len(candidates) THEN selected
    ELSE IF candidates[k] \notin Range(selected)
    THEN IF Len(selected) + 1 >= max_total
         THEN Append(selected, candidates[k])
         ELSE SecondPass(candidates, k + 1, Append(selected, candidates[k]),
                         max_total)
    ELSE SecondPass(candidates, k + 1, selected, max_total)

\* line 302
CandidatesOf(per_query) ==
    SortedByScore(Values(MergeQueries(<< >>, per_query, 1)))

\* lines 298-327
Diversified(candidates, max_total) ==
    IF candidates = << >> THEN << >>
    ELSE LET selected == FirstPass(candidates, 1, << >>, {}, max_total)
         IN  IF Len(selected) < max_total
             THEN SecondPass(candidates, 1, selected, max_total)
             ELSE selected

\* VectorStore.search_multi_query
search_multi_query(coll, per_query, max_total) ==
    IF Len(coll) = 0 THEN << >>
    ELSE Diversified(CandidatesOf(per_query), max_total)

\* ------------------------------------------------------------------------
\* State
VARIABLES
    pages,          \* chunker run: the page records handed to chunk_document
    chunked,        \* chunker run: what chunk_document gave, NotRun before
    split_text,     \* _split_long_chunk run: chunk["text"]
    split_start,    \* _split_long_chunk run: `start`
    split_windows,  \* _split_long_chunk run: the (start, end) of each window cut
    split_subs,     \* _split_long_chunk run: `sub_chunks`
    split_pc,       \* _split_long_chunk run: "idle", "loop" or "done"
    collection,     \* the persisted Chroma collection: records in insertion order
    bm25,           \* VectorStore._bm25_index, _bm25_docs, _bm25_metadatas
    history,        \* len(RAGPipeline._conversation_history); the entries are never read
    pc,             \* where the caller is: "off", "idle", inside ask, "returned"
    call,           \* the call that returned last
    indexed_alone,  \* the file whose chunks are all the store holds, "" if none is known
    result,         \* what the last call returned
    ask_locals,     \* ask: its locals and the LLM requests it made, until the caller goes on
    session,        \* app: st.session_state.indexed_files and indexing_done
    upload,         \* app: the upload in hand or just done, its totals and outcomes
    stores          \* app: the VectorStore of each session, when several are open

chunkVars == << pages, chunked >>
splitVars == << split_text, split_start, split_windows, split_subs, split_pc >>
storeVars == << collection, bm25 >>
callVars == << pc, call, indexed_alone, result, ask_locals >>
uploadVars == << session, upload, stores >>
pipelineVars == << storeVars, history, callVars, uploadVars >>
vars == << chunkVars, splitVars, pipelineVars >>

NotRun == [returns |-> FALSE, chunks |-> << >>, ran |-> FALSE]

ChunkIdle == pages = << >> /\ chunked = NotRun
SplitIdle ==
    /\ split_text = << >> /\ split_start = 0 /\ split_windows = << >>
    /\ split_subs = << >> /\ split_pc = "idle"

NoCall == [op |-> "none", file |-> "", empty_before |-> FALSE, ok |-> FALSE]
NoResult == [none |-> TRUE]
NoReply == [kind |-> "none", queries |-> << >>]
NoAsk ==
    [question |-> << >>, n |-> 0, reply |-> NoReply, sub_queries |-> << >>,
     queries |-> << >>, results |-> << >>, llm_calls |-> << >>,
     llm |-> "none"]
NewSession == [indexed_files |-> << >>, indexing_done |-> FALSE]
NoUpload ==
    [active |-> FALSE, files |-> << >>, k |-> 0, total_chunks |-> 0,
     total_pages |-> 0, errors |-> << >>, outcomes |-> << >>,
     indexed_before |-> << >>, count_before |-> 0, round |-> 0]
UploadOff == session = NewSession /\ upload = NoUpload /\ stores = << >>

PipelineOff ==
    /\ UploadOff
    /\ collection = << >>
    /\ bm25 = [built |-> FALSE, corpus |-> << >>, docs |-> << >>,
               metadatas |-> << >>]
    /\ history = 0
    /\ pc = "off" /\ call = NoCall /\ indexed_alone = ""
    /\ result = NoResult /\ ask_locals = NoAsk

\* ------------------------------------------------------------------------
\* Page records as pdf_parser.extract_text_from_pdf builds them: the lines of
\* a document, each an optional header marker and a body, joined by a newline
\* or cut into the next page; every page text is stripped and non-empty.
MaxLines == 3

\* header lines of every level, one carrying a long body
HeaderLines ==
    { <<"T", "x">>, <<"C", "x">>, <<"S", "x">>, <<"U", "x">>, <<"A", "x">>,
      <<"A", "x", "x", "x", ".", " ", "x", "x", "x", "x">> }
\* plain lines: below the minimum, within the sizes, too long with a sentence
\* end late in the window, too long with a sentence end early in the window
PlainLines ==
    { <<"x">>, <<"x", "x", "x">>,
      <<"x", "x", "x", "x", ".", " ", "x", "x", "x", "x">>,
      <<"x", "x", ".", " ", "x", "x", "x", "x", "x", "x", "x">> }
LineTexts == HeaderLines \cup PlainLines
Joiners == { "newline", "page" }

\* the page texts of lines[1..n] joined by joins[1..n-1]
RECURSIVE PageTexts(_, _, _)
PageTexts(lines, joins, n) ==
    IF n = 1 THEN << lines[1] >>
    ELSE LET before == PageTexts(lines, joins, n - 1)
             k == Len(before)
         IN  IF joins[n - 1] = "page"
             THEN Append(before, lines[n])
             ELSE [before EXCEPT ![k] = before[k] \o <<"\n">> \o lines[n]]

PagesOf(lines, joins) ==
    LET texts == PageTexts(lines, joins, Len(lines))
    IN  [i \in 1 .. Len(texts) |->
            [text |-> texts[i], page_number |-> i, source |-> "doc.pdf"]]

ChunkInit ==
    /\ \E n \in 1 .. MaxLines :
         \E lines \in [1 .. n -> LineTexts], joins \in [1 .. n - 1 -> Joiners] :
            pages = PagesOf(lines, joins)
    /\ chunked = NotRun
    /\ SplitIdle
    /\ PipelineOff

\* chunk_document(pages) is called
ChunkDocument ==
    /\ ~chunked.ran
    /\ LET r == chunk_document(pages)
       IN  chunked' = [returns |-> r.returns, chunks |-> r.chunks, ran |-> TRUE]
    /\ UNCHANGED << pages, splitVars, pipelineVars >>

ChunkNext == ChunkDocument

ChunkSpec == ChunkInit /\ [][ChunkNext]_vars

\* ------------------------------------------------------------------------
\* chunk_document on pages made of paragraphs: a blank line between two
\* paragraphs of a page, or two blank lines, or a page break
MaxParagraphs == 3

ParagraphTexts ==
    { <<"x">>, <<"x", "x", "x">>, <<"x", "x", "x", "x">>,
      <<"A", "x", " ", "x">> }
ParagraphJoiners == { "blank", "gap", "page" }

\* the page texts of paragraphs[1..n] joined by joins[1..n-1]
RECURSIVE ParagraphPageTexts(_, _, _)
ParagraphPageTexts(paragraphs, joins, n) ==
    IF n = 1 THEN << paragraphs[1] >>
    ELSE LET before == ParagraphPageTexts(paragraphs, joins, n - 1)
             k == Len(before)
         IN  CASE joins[n - 1] = "page" -> Append(before, paragraphs[n])
               [] joins[n - 1] = "gap" ->
                    [before EXCEPT
                        ![k] = before[k] \o <<"\n", "\n", "\n">> \o paragraphs[n]]
               [] OTHER ->
                    [before EXCEPT
                        ![k] = before[k] \o <<"\n", "\n">> \o paragraphs[n]]

PagesOfParagraphs(paragraphs, joins) ==
    LET texts == ParagraphPageTexts(paragraphs, joins, Len(paragraphs))
    IN  [i \in 1 .. Len(texts) |->
            [text |-> texts[i], page_number |-> i, source |-> "doc.pdf"]]

PageInit ==
    /\ \E n \in 1 .. MaxParagraphs :
         \E paragraphs \in [1 .. n -> ParagraphTexts],
            joins \in [1 .. n - 1 -> ParagraphJoiners] :
            pages = PagesOfParagraphs(paragraphs, joins)
    /\ chunked = NotRun
    /\ SplitIdle
    /\ PipelineOff

PageSpec == PageInit /\ [][ChunkNext]_vars

\* ------------------------------------------------------------------------
\* _split_long_chunk, one loop iteration per step.  The texts are words
\* joined by the separators the loop looks for (and by a plain space).
MaxWords == 3
\* iterations followed; a run that returns needs fewer (SplitRunsFit)
MaxWindows == 6

Words == { <<"x">>, <<"x", "x", "x">>, <<"x", "x", "x", "x", "x", "x">> }
WordJoins ==
    { <<".", " ">>, <<".", "\n">>, <<";", "\n">>, <<"\n", "\n">>, <<"\n">>,
      <<" ">> }

RECURSIVE WordsText(_, _, _)
WordsText(ws, js, n) ==
    IF n = 1 THEN ws[1]
    ELSE WordsText(ws, js, n - 1) \o js[n - 1] \o ws[n]

ParagraphMeta ==
    [titre |-> << >>, chapitre |-> << >>, section |-> << >>, article |-> << >>,
     level |-> "paragraphe", page |-> 1, source |-> "doc.pdf",
     sub_chunk |-> FALSE]

SplitChunk == [text |-> split_text, metadata |-> ParagraphMeta]

\* chunk_document line 54 calls _split_long_chunk only on longer texts
SplitInit ==
    /\ \E n \in 1 .. MaxWords :
         \E ws \in [1 .. n -> Words], js \in [1 .. n - 1 -> WordJoins] :
            /\ split_text = WordsText(ws, js, n)
            /\ Len(split_text) > MAX_CHUNK_SIZE
    /\ split_start = 0
    /\ split_windows = << >>
    /\ split_subs = << >>
    /\ split_pc = "loop"
    /\ ChunkIdle
    /\ PipelineOff

\* one pass through the while body, lines 186-213
SplitIterate ==
    /\ split_pc = "loop"
    /\ split_start < Len(split_text)
    /\ Len(split_windows) < MaxWindows
    /\ split_windows' = Append(split_windows,
            [start |-> split_start, end |-> WindowEnd(split_text, split_start)])
    /\ split_subs' = split_subs \o WindowSubChunks(SplitChunk, split_start)
    /\ split_start' = NextStart(split_text, split_start)
    /\ UNCHANGED << split_text, split_pc, chunkVars, pipelineVars >>

\* the while condition fails, line 215
SplitReturn ==
    /\ split_pc = "loop"
    /\ ~(split_start < Len(split_text))
    /\ split_pc' = "done"
    /\ UNCHANGED << split_text, split_start, split_windows, split_subs,
                    chunkVars, pipelineVars >>

SplitNext == SplitIterate \/ SplitReturn

SplitSpec == SplitInit /\ [][SplitNext]_vars

\* every run that returns does so within the iterations followed
SplitRunsFit ==
    (split_pc = "loop" /\ Len(split_windows) = MaxWindows
        /\ split_start < Len(split_text))
    => ~_split_long_chunk(SplitChunk).returns

\* ------------------------------------------------------------------------
\* RAGPipeline over its VectorStore, one session.  The caller makes one call
\* at a time and reads what it returned before the next.
MaxDocs == 3
MaxAsks == 2

MULTI_QUERY_COUNT == 1
N_RESULTS_PER_QUERY == 5
PREVIEW_LEN == 300

\* the files on disk: a law of three headers, one article header with its
\* sentence, the same below the minimum chunk size, and a path with no file
LawPages ==
    << [text |-> <<"A", "x", " ", "x", "\n", "C", "x", "\n", "A", "x">>,
        page_number |-> 1, source |-> "law.pdf"] >>
ArticlePages ==
    << [text |-> <<"A", "x", " ", "x">>, page_number |-> 1,
        source |-> "article.pdf"] >>
ShortPages ==
    << [text |-> <<"A", "x">>, page_number |-> 1, source |-> "short.pdf"] >>
PdfFiles == { "law.pdf", "article.pdf", "short.pdf", "missing.pdf" }

\* pdf_parser.extract_text_from_pdf raises FileNotFoundError on these
Missing(file) == file = "missing.pdf"
extract_text_from_pdf(file) ==
    CASE file = "law.pdf" -> LawPages
      [] file = "article.pdf" -> ArticlePages
      [] OTHER -> ShortPages

\* chunk lists handed to add_documents directly
Batches == { << >>, << chunk_document(LawPages).chunks[2] >> }

Queries == { <<"c", "x">>, <<"a", "x">> }

\* what the embedding model and BM25Okapi can say about a query: a similarity
\* per stored text, and a raw score per indexed text that is 0 unless the
\* text holds a token of the query
AskSemLevels == { 2000, 9000 }
AskBm25Levels == { 0, 2 }
StoredTexts == { collection[k].text : k \in 1 .. Len(collection) }
IndexedTexts == Range(bm25.docs)
Matching(tokenized_query) ==
    { t \in IndexedTexts :
        Range(_tokenize_french(t)) \cap Range(tokenized_query) # {} }
RawScores(tokenized_query, levels) ==
    { [t \in IndexedTexts |-> IF t \in DOMAIN some THEN some[t] ELSE 0] :
        some \in [Matching(tokenized_query) -> levels] }

\* one table of raw scores per query
RECURSIVE RawTables(_, _)
RawTables(queries, levels) ==
    IF queries = {} THEN { << >> }
    ELSE LET q == CHOOSE x \in queries : TRUE
         IN  { [x \in {q} \cup DOMAIN others |->
                    IF x = q THEN one ELSE others[x]] :
                 one \in RawScores(_tokenize_french(q), levels),
                 others \in RawTables(queries \ {q}, levels) }

Called(op, file, ok) ==
    [op |-> op, file |-> file, empty_before |-> Len(collection) = 0, ok |-> ok]

\* RAGPipeline() in a fresh installation
Init ==
    /\ collection = << >>
    /\ bm25 = bm25_of(<< >>)
    /\ history = 0
    /\ pc = "returned"
    /\ call = [op |-> "construct", file |-> "", empty_before |-> TRUE,
               ok |-> TRUE]
    /\ indexed_alone = ""
    /\ result = NoResult
    /\ ask_locals = NoAsk
    /\ UploadOff
    /\ ChunkIdle
    /\ SplitIdle

\* the caller has read the result
Continue ==
    /\ pc = "returned"
    /\ pc' = "idle"
    /\ call' = NoCall
    /\ result' = NoResult
    /\ ask_locals' = NoAsk
    /\ UNCHANGED << storeVars, history, indexed_alone, chunkVars, splitVars, uploadVars >>

\* the process is started again: RAGPipeline.__init__, VectorStore.__init__
Construct ==
    /\ pc = "idle"
    /\ bm25' = bm25_of(collection)
    /\ history' = 0
    /\ pc' = "returned"
    /\ call' = Called("construct", "", TRUE)
    /\ result' = NoResult
    /\ indexed_alone' = ""
    /\ UNCHANGED << collection, ask_locals, chunkVars, splitVars, uploadVars >>

\* VectorStore.add_documents(chunks) as a step: `done` batches reach the
\* collection; fewer than all of them when collection.add raises
AddStep(op, file, chunks, done, pages_extraites) ==
    /\ Len(collection) + Len(chunks) <= MaxDocs
    /\ collection' = AfterBatches(collection, chunks, done)
    /\ IF chunks # << >> /\ done = BatchCount(chunks)
       THEN bm25' = bm25_of(collection')
       ELSE bm25' = bm25
    /\ pc' = "returned"
    /\ call' = Called(op, file, done = BatchCount(chunks))
    /\ result' = IF done = BatchCount(chunks)
                 THEN [pages_extraites |-> pages_extraites,
                       chunks_crees |-> Len(chunks)]
                 ELSE [raised |-> "collection.add"]
    /\ indexed_alone' = IF op = "index_pdf" /\ Len(collection) = 0
                            /\ done = BatchCount(chunks)
                         THEN file ELSE ""
    /\ UNCHANGED << history, ask_locals, chunkVars, splitVars, uploadVars >>

AddDocuments ==
    /\ pc = "idle"
    /\ \E chunks \in Batches : \E done \in 0 .. BatchCount(chunks) :
         AddStep("add_documents", "", chunks, done, 0)

\* RAGPipeline.index_pdf(file)
index_pdf(file) ==
    IF Missing(file)
    THEN /\ pc' = "returned"
         /\ call' = Called("index_pdf", file, FALSE)
         /\ result' = [raised |-> "FileNotFoundError"]
         /\ indexed_alone' = ""
         /\ UNCHANGED << storeVars, history, ask_locals, chunkVars,
                         splitVars, uploadVars >>
    ELSE LET extracted == extract_text_from_pdf(file)
             chunks == chunk_document(extracted)
         IN  /\ chunks.returns
             /\ \E done \in 0 .. BatchCount(chunks.chunks) :
                  AddStep("index_pdf", file, chunks.chunks, done,
                          Len(extracted))

IndexPdf ==
    /\ pc = "idle"
    /\ \E file \in PdfFiles : index_pdf(file)

\* a reset of the store that keeps the conversation history
ResetKeepingHistory ==
    /\ pc = "idle"
    /\ collection' = << >>
    /\ bm25' = [built |-> FALSE, corpus |-> << >>, docs |-> << >>,
                metadatas |-> << >>]
    /\ pc' = "returned"
    /\ call' = Called("reset", "", TRUE)
    /\ result' = NoResult
    /\ indexed_alone' = ""
    /\ UNCHANGED << history, ask_locals, chunkVars, splitVars, uploadVars >>

\* RAGPipeline.reset()
Reset ==
    /\ pc = "idle"
    /\ collection' = << >>
    /\ bm25' = [built |-> FALSE, corpus |-> << >>, docs |-> << >>,
                metadatas |-> << >>]
    /\ history' = 0
    /\ pc' = "returned"
    /\ call' = Called("reset", "", TRUE)
    /\ result' = NoResult
    /\ indexed_alone' = ""
    /\ UNCHANGED << ask_locals, chunkVars, splitVars, uploadVars >>

\* what RAGPipeline.get_stats() reports of the state at hand
get_stats ==
    [total_chunks |-> Len(collection),
     bm25_active |-> bm25.built,
     questions_posees |-> history]

\* RAGPipeline.get_stats()
GetStats ==
    /\ pc = "idle"
    /\ pc' = "returned"
    /\ call' = Called("get_stats", "", TRUE)
    /\ result' = get_stats
    /\ UNCHANGED << storeVars, history, indexed_alone, ask_locals, chunkVars,
                    splitVars, uploadVars >>

\* what the decomposition request can come to: the request raises (an error,
\* a timeout), the content holds no [...], what it holds is not JSON, the
\* list is empty, or the content holds a JSON list of queries
MaxReply == 2
DecompositionFailures ==
    { "error", "timeout", "no_list", "malformed_json", "empty_list" }
DecompositionReplies ==
    { [kind |-> kind, queries |-> << >>] : kind \in DecompositionFailures }
    \cup { [kind |-> "list", queries |-> queries] :
              queries \in UNION { [1 .. n -> Queries] : n \in 1 .. MaxReply } }

\* a decomposition that returns the whole list of the reply
_decompose_question_uncapped(reply) ==
    IF reply.kind = "list" THEN reply.queries ELSE << >>

\* RAGPipeline._decompose_question, from the reply on
_decompose_question(reply) ==
    IF reply.kind = "list" THEN Take(reply.queries, MULTI_QUERY_COUNT)
    ELSE << >>

\* RAGPipeline._call_llm: the answer per outcome of the request
LlmOutcomes ==
    { "content", "empty_content", "connection_error", "timeout", "error" }
LlmFailures == { "connection_error", "timeout", "error" }
\* what ask is left with when _call_llm lets an exception through
Uncaught == "uncaught"

\* a _call_llm with one message for every failure
_call_llm_one_message(outcome) ==
    CASE outcome = "content" -> "generated"
      [] outcome = "empty_content" -> ""
      [] OTHER -> "llm error"

\* a _call_llm without its last except clause
_call_llm_uncaught(outcome) ==
    CASE outcome = "content" -> "generated"
      [] outcome = "empty_content" -> ""
      [] outcome = "connection_error" -> "cannot connect"
      [] outcome = "timeout" -> "too slow"
      [] OTHER -> Uncaught

\* a _call_llm without its except clause for timeouts and the general one
_call_llm_raising_on_timeout(outcome) ==
    CASE outcome = "content" -> "generated"
      [] outcome = "empty_content" -> ""
      [] outcome = "connection_error" -> "cannot connect"
      [] outcome = "timeout" -> Uncaught
      [] OTHER -> Uncaught

_call_llm(outcome) ==
    CASE outcome = "content" -> "generated"
      [] outcome = "empty_content" -> ""
      [] outcome = "connection_error" -> "cannot connect"
      [] outcome = "timeout" -> "too slow"
      [] OTHER -> "llm error"

NoDocumentsAnswer == "no documents"

\* f"{score:.0%}" of a fused score
Percent(score) == (score + 500) \div 1000

\* RAGPipeline._format_sources
_format_sources(results) ==
    [k \in 1 .. Len(results) |->
        [texte |-> IF Len(results[k].text) > PREVIEW_LEN
                   THEN PySlice(results[k].text, 0, PREVIEW_LEN)
                            \o <<".", ".", ".">>
                   ELSE results[k].text,
         article |-> results[k].metadata.article,
         chapitre |-> results[k].metadata.chapitre,
         section |-> results[k].metadata.section,
         page |-> results[k].metadata.page,
         source |-> results[k].metadata.source,
         pertinence |-> Percent(results[k].score)]]

\* ask, lines 126-129
AskDecompose ==
    /\ pc = "idle"
    /\ history < MaxAsks
    /\ \E question \in Queries, n_results \in {0, 1},
          reply \in DecompositionReplies :
         ask_locals' = [question |-> question,
                        n |-> OrTopK(n_results),
                        reply |-> reply,
                        sub_queries |-> _decompose_question(reply),
                        queries |-> << >>,
                        results |-> << >>,
                        llm_calls |-> << "decompose" >>,
                        llm |-> "none"]
    /\ pc' = "decomposed"
    /\ UNCHANGED << storeVars, history, call, indexed_alone, result,
                    chunkVars, splitVars, uploadVars >>

all_queries == << ask_locals.question >> \o ask_locals.sub_queries

\* ask, line 130; the reply of the LLM is not read again, what stays of it is
\* whether it held a list
AskQueries ==
    /\ pc = "decomposed"
    /\ ask_locals' =
            [ask_locals EXCEPT
                !.reply = [kind |-> IF ask_locals.reply.kind = "list"
                                    THEN "list" ELSE "failed",
                           queries |-> << >>],
                !.queries = all_queries]
    /\ pc' = "queried"
    /\ UNCHANGED << storeVars, history, call, indexed_alone, result,
                    chunkVars, splitVars, uploadVars >>

\* an ask that never takes the early return
NothingRetrievedNever(results) == FALSE

\* ask, line 143, `if not results:`
NothingRetrieved(results) == results = << >>

\* ask, lines 133-150: sem[q] and raw[q] are what the embedding model and the
\* BM25 index say about query q
AskRetrieve ==
    /\ pc = "queried"
    /\ \E sem \in [Range(ask_locals.queries) -> [StoredTexts -> AskSemLevels]] :
       \E raw \in RawTables(Range(ask_locals.queries), AskBm25Levels) :
         LET per_query ==
                [k \in 1 .. Len(ask_locals.queries) |->
                    search_hybrid(collection, bm25,
                                  _tokenize_french(ask_locals.queries[k]),
                                  sem[ask_locals.queries[k]],
                                  raw[ask_locals.queries[k]],
                                  N_RESULTS_PER_QUERY)]
             diversified ==
                search_multi_query(collection, per_query, ask_locals.n)
             results ==
                IF diversified = << >>
                THEN search(collection, sem[ask_locals.question], ask_locals.n)
                ELSE diversified
         IN  /\ ask_locals' = [ask_locals EXCEPT !.results = results]
             /\ IF NothingRetrieved(results)
                THEN /\ pc' = "returned"
                     /\ call' = Called("ask", "", TRUE)
                     /\ result' = [answer |-> NoDocumentsAnswer,
                                   sources |-> << >>]
                ELSE /\ pc' = "retrieved"
                     /\ UNCHANGED << call, result >>
    /\ UNCHANGED << storeVars, history, indexed_alone, chunkVars, splitVars, uploadVars >>

\* ask, lines 152-173
AskGenerate ==
    /\ pc = "retrieved"
    /\ \E outcome \in LlmOutcomes :
         LET answer == _call_llm(outcome)
         IN  /\ ask_locals' =
                    [ask_locals EXCEPT !.llm_calls = Append(@, "generate"),
                                       !.llm = outcome]
             /\ IF answer = Uncaught
                THEN /\ history' = history
                     /\ result' = [raised |-> "_call_llm"]
                     /\ call' = Called("ask", "", FALSE)
                ELSE /\ history' = history + 1
                     /\ result' =
                            [answer |-> answer,
                             sources |-> _format_sources(ask_locals.results)]
                     /\ call' = Called("ask", "", TRUE)
    /\ pc' = "returned"
    /\ UNCHANGED << storeVars, indexed_alone, chunkVars, splitVars, uploadVars >>

Next ==
    \/ Continue \/ Construct \/ AddDocuments \/ IndexPdf \/ Reset \/ GetStats
    \/ AskDecompose \/ AskQueries \/ AskRetrieve \/ AskGenerate

Spec == Init /\ [][Next]_vars

\* ------------------------------------------------------------------------
\* The sidebar of the application: files are uploaded and indexed one after
\* the other, in one session over a store that starts empty.
MaxBatch == 3
MaxUploads == 2

UploadedFiles == UNION { [1 .. n -> PdfFiles] : n \in 1 .. MaxBatch }

UploadInit ==
    /\ collection = << >>
    /\ bm25 = bm25_of(<< >>)
    /\ history = 0
    /\ pc = "idle"
    /\ call = NoCall
    /\ indexed_alone = ""
    /\ result = NoResult
    /\ ask_locals = NoAsk
    /\ UploadOff
    /\ ChunkIdle
    /\ SplitIdle

\* app, lines 143-149: the button is pressed with files chosen
UploadStart ==
    /\ pc = "idle"
    /\ upload.round < MaxUploads
    /\ \E files \in UploadedFiles :
         upload' = [active |-> TRUE, files |-> files, k |-> 1,
                    total_chunks |-> 0, total_pages |-> 0,
                    errors |-> << >>, outcomes |-> << >>,
                    indexed_before |-> session.indexed_files,
                    count_before |-> Len(collection),
                    round |-> upload.round + 1]
    /\ pc' = "uploading"
    /\ UNCHANGED << storeVars, history, call, indexed_alone, result,
                    ask_locals, session, stores, chunkVars, splitVars >>

\* app, lines 150-157: the next file is saved and index_pdf called on it
UploadIndexPdf ==
    /\ pc = "uploading"
    /\ upload.k <= Len(upload.files)
    /\ index_pdf(upload.files[upload.k])

\* an application that lists every file it tried
IndexedFilesAfterTry(indexed_files, name, ok) ==
    IF name \notin Range(indexed_files)
    THEN Append(indexed_files, name) ELSE indexed_files

\* app, lines 161-162, reached when index_pdf returned
IndexedFilesAfter(indexed_files, name, ok) ==
    IF ok /\ name \notin Range(indexed_files)
    THEN Append(indexed_files, name) ELSE indexed_files

\* app, lines 158-165: the totals and the list after index_pdf returned, the
\* error shown after it raised
UploadHandle ==
    /\ pc = "returned"
    /\ upload.active
    /\ LET name == upload.files[upload.k]
           outcome == [file |-> name, ok |-> call.ok,
                       chunks |-> IF call.ok THEN result.chunks_crees ELSE 0,
                       pages |-> IF call.ok THEN result.pages_extraites ELSE 0]
       IN  /\ upload' =
                [upload EXCEPT
                    !.k = @ + 1,
                    !.total_chunks = @ + outcome.chunks,
                    !.total_pages = @ + outcome.pages,
                    !.errors = IF call.ok THEN @ ELSE Append(@, name),
                    !.outcomes = Append(@, outcome)]
           /\ session' =
                [session EXCEPT
                    !.indexed_files = IndexedFilesAfter(@, name, call.ok)]
    /\ pc' = "uploading"
    /\ call' = NoCall
    /\ result' = NoResult
    /\ UNCHANGED << storeVars, history, indexed_alone, ask_locals, stores,
                    chunkVars, splitVars >>

\* app, lines 167-168: the loop is over
UploadDone ==
    /\ pc = "uploading"
    /\ upload.k > Len(upload.files)
    /\ upload' = [upload EXCEPT !.active = FALSE]
    /\ session' = [session EXCEPT !.indexing_done = TRUE]
    /\ pc' = "idle"
    /\ UNCHANGED << storeVars, history, call, indexed_alone, result,
                    ask_locals, stores, chunkVars, splitVars >>

UploadNext == UploadStart \/ UploadIndexPdf \/ UploadHandle \/ UploadDone

UploadSpec == UploadInit /\ [][UploadNext]_vars

\* ------------------------------------------------------------------------
\* The searches of a VectorStore constructed over a persisted collection of
\* chunks of the law, in any order and with repetitions.
MaxStored == 3
MaxTotal == 3

SemLevels == { 2000, 5000, 9000 }
Bm25Levels == { -1, 1, 2 }
\* the queries of ask and one with no token of MIN_TOKEN_LEN characters
SearchQueries == Queries \cup { <<"x">> }
QueryLists ==
    { << q >> : q \in Queries } \cup { << q, r >> : q, r \in Queries }

SearchInit ==
    /\ \E n \in 0 .. MaxStored :
         \E picks \in [1 .. n -> 1 .. Len(chunk_document(LawPages).chunks)] :
            collection = NewRecords(<< >>,
                [k \in 1 .. n |-> chunk_document(LawPages).chunks[picks[k]]])
    /\ bm25 = bm25_of(collection)
    /\ history = 0
    /\ pc = "idle"
    /\ call = NoCall
    /\ indexed_alone = ""
    /\ result = NoResult
    /\ ask_locals = NoAsk
    /\ UploadOff
    /\ ChunkIdle
    /\ SplitIdle

\* VectorStore.search_hybrid(query, n_results); the result keeps the two
\* lists it fused
SearchHybrid ==
    /\ pc = "idle"
    /\ \E query \in SearchQueries, n_results \in {0, 1, 2} :
       \E sem \in [StoredTexts -> SemLevels] :
       \E raw \in RawScores(_tokenize_french(query), Bm25Levels) :
         result' =
            [n_results |-> n_results,
             semantic_results |->
                search(collection, sem, OrTopK(n_results) * 2),
             bm25_results |->
                search_bm25(bm25, _tokenize_french(query), raw,
                            OrTopK(n_results) * 2),
             results |->
                search_hybrid(collection, bm25, _tokenize_french(query),
                              sem, raw, n_results)]
    /\ pc' = "returned"
    /\ call' = Called("search_hybrid", "", TRUE)
    /\ UNCHANGED << storeVars, history, indexed_alone, ask_locals, chunkVars,
                    splitVars, uploadVars >>

\* what get_scores can give a document that holds a token of the query
RawLevels == { -1, 0, 1, 3 }
\* the queries of the lexical search: one more of short words only, with an
\* upper-case letter and punctuation
Bm25Queries == SearchQueries \cup { <<"A", ".", "x">> }

\* VectorStore.search_bm25(query, n_results); the result keeps the query and
\* the raw scores
SearchBm25 ==
    /\ pc = "idle"
    /\ \E query \in Bm25Queries, n_results \in {0, 1, 2} :
       \E raw \in RawScores(_tokenize_french(query), RawLevels) :
         result' =
            [query |-> query,
             n_results |-> n_results,
             raw |-> raw,
             results |->
                search_bm25(bm25, _tokenize_french(query), raw, n_results)]
    /\ pc' = "returned"
    /\ call' = Called("search_bm25", "", TRUE)
    /\ UNCHANGED << storeVars, history, indexed_alone, ask_locals, chunkVars,
                    splitVars, uploadVars >>

\* VectorStore.search_multi_query, lines 284-302: the candidates are collected;
\* max_total is not read before the selection
MultiQueryCollect ==
    /\ pc = "idle"
    /\ \E queries \in QueryLists, n_results_per_query \in {1, 2} :
       \E sem \in [Range(queries) -> [StoredTexts -> AskSemLevels]] :
       \E raw \in RawTables(Range(queries), AskBm25Levels) :
         LET per_query ==
                [k \in 1 .. Len(queries) |->
                    search_hybrid(collection, bm25,
                                  _tokenize_french(queries[k]),
                                  sem[queries[k]], raw[queries[k]],
                                  n_results_per_query)]
         IN  result' = [per_query |-> per_query,
                        candidates |-> IF Len(collection) = 0 THEN << >>
                                       ELSE CandidatesOf(per_query)]
    /\ pc' = "collected"
    /\ UNCHANGED << storeVars, history, call, indexed_alone, ask_locals,
                    chunkVars, splitVars, uploadVars >>

\* lines 304-327: search_multi_query(queries, n_results_per_query, max_total)
\* returns
MultiQuerySelect ==
    /\ pc = "collected"
    /\ \E max_total \in 0 .. MaxTotal :
         result' = [per_query |-> result.per_query,
                    candidates |-> result.candidates,
                    max_total |-> max_total,
                    results |-> search_multi_query(collection,
                                    result.per_query, max_total)]
    /\ pc' = "returned"
    /\ call' = Called("search_multi_query", "", TRUE)
    /\ UNCHANGED << storeVars, history, indexed_alone, ask_locals, chunkVars,
                    splitVars, uploadVars >>

SearchNext ==
    SearchHybrid \/ SearchBm25 \/ MultiQueryCollect \/ MultiQuerySelect

SearchSpec == SearchInit /\ [][SearchNext]_vars

\* ------------------------------------------------------------------------
\* The retrieval of ask on a VectorStore over a persisted collection:
\* search_multi_query on the question and the sub-queries, then the plain
\* search on the question, whose result ask uses when the first is empty.
\* The embedding of the question is the same in both (sem[queries[1]]).
RetrieveWithFallback ==
    /\ pc = "idle"
    /\ \E queries \in QueryLists, n_results_per_query \in {1, 2},
          n_results \in {0, 1} :
       \E sem \in [Range(queries) -> [StoredTexts -> AskSemLevels]] :
       \E raw \in RawTables(Range(queries), AskBm25Levels) :
         LET per_query ==
                [k \in 1 .. Len(queries) |->
                    search_hybrid(collection, bm25,
                                  _tokenize_french(queries[k]),
                                  sem[queries[k]], raw[queries[k]],
                                  n_results_per_query)]
         IN  result' =
                [n_results_per_query |-> n_results_per_query,
                 n |-> OrTopK(n_results),
                 multi_query |->
                    search_multi_query(collection, per_query,
                                       OrTopK(n_results)),
                 fallback |->
                    search(collection, sem[queries[1]], OrTopK(n_results))]
    /\ pc' = "returned"
    /\ call' = Called("retrieve", "", TRUE)
    /\ UNCHANGED << storeVars, history, indexed_alone, ask_locals, chunkVars,
                    splitVars, uploadVars >>

RetrieveNext == RetrieveWithFallback

RetrieveSpec == SearchInit /\ [][RetrieveNext]_vars

\* ------------------------------------------------------------------------
\* Two sessions of the application in one process: each has its own
\* RAGPipeline and VectorStore (app, lines 116-117), all over the one
\* persisted collection.  stores[s].bm25 is the lexical index of session s,
\* stores[s].live says whether its self._collection is the collection the
\* client holds now; `bm25` is not used here.
MaxShared == 3

Sessions == { 1, 2 }

\* VectorStore.__init__ of every session over what is persisted
SessionsInit ==
    /\ \E chunks \in Batches :
         /\ collection = NewRecords(<< >>, chunks)
         /\ stores = [s \in Sessions |->
                        [bm25 |-> bm25_of(collection), live |-> TRUE]]
    /\ bm25 = bm25_of(<< >>)
    /\ history = 0
    /\ pc = "idle"
    /\ call = NoCall
    /\ indexed_alone = ""
    /\ result = NoResult
    /\ ask_locals = NoAsk
    /\ session = NewSession
    /\ upload = NoUpload
    /\ ChunkIdle
    /\ SplitIdle

SessionCalled(op, s, ok) ==
    [op |-> op, file |-> "", empty_before |-> Len(collection) = 0, ok |-> ok,
     session |-> s]

\* a call through the self._collection of a session whose collection another
\* session has deleted: the library raises, or it finds the collection of
\* that name
StaleRaises(op, s) ==
    /\ ~stores[s].live
    /\ pc' = "returned"
    /\ call' = SessionCalled(op, s, FALSE)
    /\ result' = NoResult
    /\ UNCHANGED << storeVars, history, indexed_alone, ask_locals, chunkVars,
                    splitVars, uploadVars >>

\* VectorStore.add_documents(chunks) of session s, chunks in one batch: the
\* records are added and the index of s alone is rebuilt
SessionAddDocuments(s) ==
    /\ pc = "idle"
    /\ Len(collection) < MaxShared
    /\ \/ StaleRaises("add_documents", s)
       \/ \E chunks \in Batches \ { << >> } :
            /\ collection' = collection \o NewRecords(collection, chunks)
            /\ stores' = [stores EXCEPT ![s].bm25 = bm25_of(collection')]
            /\ pc' = "returned"
            /\ call' = SessionCalled("add_documents", s, TRUE)
            /\ result' = [added |-> Len(chunks)]
            /\ UNCHANGED << bm25, history, indexed_alone, ask_locals, session,
                            upload, chunkVars, splitVars >>

\* VectorStore.reset() of session s: the client deletes the collection by
\* its name and creates it again; s holds the new one, its index is dropped
SessionReset(s) ==
    /\ pc = "idle"
    /\ collection' = << >>
    /\ stores' = [t \in Sessions |->
                    IF t = s THEN [bm25 |-> bm25_of(<< >>), live |-> TRUE]
                    ELSE [stores[t] EXCEPT !.live = FALSE]]
    /\ pc' = "returned"
    /\ call' = SessionCalled("reset", s, TRUE)
    /\ result' = NoResult
    /\ UNCHANGED << bm25, history, indexed_alone, ask_locals, session, upload,
                    chunkVars, splitVars >>

\* the raw scores BM25Okapi can give the documents of an index
SessionRawScores(index, tokenized_query) ==
    { [t \in Range(index.docs) |->
          IF Range(_tokenize_french(t)) \cap Range(tokenized_query) # {}
          THEN level ELSE 0] : level \in AskBm25Levels }

\* VectorStore.search_hybrid(query) of session s: the semantic half reads
\* the collection, the lexical half the index of s
SessionSearchHybrid(s) ==
    /\ pc = "idle"
    /\ \/ StaleRaises("search_hybrid", s)
       \/ \E query \in Queries :
          \E sem \in [StoredTexts -> AskSemLevels] :
          \E raw \in SessionRawScores(stores[s].bm25, _tokenize_french(query)) :
            /\ result' =
                  [results |->
                      search_hybrid(collection, stores[s].bm25,
                                    _tokenize_french(query), sem, raw, 0)]
            /\ pc' = "returned"
            /\ call' = SessionCalled("search_hybrid", s, TRUE)
            /\ UNCHANGED << storeVars, history, indexed_alone, ask_locals,
                            chunkVars, splitVars, uploadVars >>

\* VectorStore.get_stats() of session s
SessionGetStats(s) ==
    /\ pc = "idle"
    /\ \/ StaleRaises("get_stats", s)
       \/ /\ result' = [total_chunks |-> Len(collection),
                        bm25_active |-> stores[s].bm25.built]
          /\ pc' = "returned"
          /\ call' = SessionCalled("get_stats", s, TRUE)
          /\ UNCHANGED << storeVars, history, indexed_alone, ask_locals,
                          chunkVars, splitVars, uploadVars >>

SessionsNext ==
    \/ Continue
    \/ \E s \in Sessions : SessionAddDocuments(s)
    \/ \E s \in Sessions : SessionReset(s)
    \/ \E s \in Sessions : SessionSearchHybrid(s)
    \/ \E s \in Sessions : SessionGetStats(s)

SessionsSpec == SessionsInit /\ [][SessionsNext]_vars

\* ------------------------------------------------------------------------
\* Claims about the chunker (ChunkSpec, SplitSpec)

Returned == chunked.ran /\ chunked.returns
Chunks == chunked.chunks
\* the delimiters recognised in the buffer of the pages at hand
Recognised == Delimiters(FullTextOf(pages))
IsSub(i) == Chunks[i].metadata.sub_chunk

\* C4: every chunk chunk_document returns, whole or sub-chunk, has a text of
\* MIN_CHUNK_SIZE to MAX_CHUNK_SIZE characters.
C4_ChunkSizes ==
    Returned =>
        \A i \in 1 .. Len(Chunks) :
            /\ Len(Chunks[i].text) >= MIN_CHUNK_SIZE
            /\ Len(Chunks[i].text) <= MAX_CHUNK_SIZE

\* a run that returned whole chunks and sub-chunks and dropped a short piece
C4_Witness ==
    /\ Returned
    /\ \E i \in 1 .. Len(Chunks) : IsSub(i)
    /\ \E i \in 1 .. Len(Chunks) : ~IsSub(i)
    /\ \E c \in { BaseChunks(pages)[i] : i \in 1 .. Len(BaseChunks(pages)) } :
          Len(c.text) < MIN_CHUNK_SIZE

\* C5 (as claimed): whenever at least one structural delimiter is recognised,
\* chunk_document returns at least one chunk.
C5_Claimed ==
    (Returned /\ Len(Recognised) >= 1) => Len(Chunks) >= 1

\* C6: with fewer than three recognised delimiters every returned chunk is a
\* "paragraphe" chunk with empty titre, chapitre, section and article; with
\* three or more no returned chunk is a "paragraphe" chunk.
C6_FallbackExclusive ==
    Returned =>
        /\ Len(Recognised) < 3 =>
              \A i \in 1 .. Len(Chunks) :
                  /\ Chunks[i].metadata.level = "paragraphe"
                  /\ Chunks[i].metadata.titre = << >>
                  /\ Chunks[i].metadata.chapitre = << >>
                  /\ Chunks[i].metadata.section = << >>
                  /\ Chunks[i].metadata.article = << >>
        /\ Len(Recognised) >= 3 =>
              \A i \in 1 .. Len(Chunks) :
                  Chunks[i].metadata.level # "paragraphe"

\* two delimiters recognised, and the fallback gave a sub-chunk of a long
\* paragraph beside a whole paragraph
C6_Witness ==
    /\ Returned
    /\ Len(Recognised) = 2
    /\ \E i \in 1 .. Len(Chunks) : IsSub(i)
    /\ \E i \in 1 .. Len(Chunks) : ~IsSub(i)

\* the header of the last delimiter of `level` among delimiters 1..i that no
\* later delimiter (up to i) of a level in `clearers` follows; << >> if none
Inherited(delims, i, level, clearers) ==
    LET at == { j \in 1 .. i : delims[j].level = level }
    IN  IF at = {} THEN << >>
        ELSE LET j == SetMax(at)
             IN  IF \E k \in j + 1 .. i : delims[k].level \in clearers
                 THEN << >> ELSE delims[j].header

\* the metadata the claim gives the chunk of delimiter i
ClaimedMeta(delims, i) ==
    [titre |-> Inherited(delims, i, "titre", {}),
     chapitre |-> Inherited(delims, i, "chapitre", {"titre"}),
     section |-> Inherited(delims, i, "section", {"titre", "chapitre"}),
     article |-> IF delims[i].level = "article" THEN delims[i].header ELSE << >>,
     level |-> delims[i].level]

SameStructure(meta, claimed) ==
    /\ meta.titre = claimed.titre
    /\ meta.chapitre = claimed.chapitre
    /\ meta.section = claimed.section
    /\ meta.article = claimed.article
    /\ meta.level = claimed.level

\* text without its "[context]\n" prefix
Unprefixed(text) ==
    IF text # << >> /\ text[1] = "["
    THEN LET nl == { k \in 1 .. Len(text) : text[k] = "\n" }
         IN  IF nl = {} THEN << >>
             ELSE SubSeq(text, (CHOOSE k \in nl : \A m \in nl : k <= m) + 1,
                         Len(text))
    ELSE text

\* C8: in structural mode every returned chunk carries, for some delimiter
\* whose span it comes from, the titre / chapitre / section in force at that
\* delimiter (a titre clears chapitre and section, a chapitre clears section,
\* nothing else clears) and the delimiter's own header as article exactly
\* when its level is article.
C8_ContextPropagates ==
    (Returned /\ Len(Recognised) >= 3) =>
        LET delims == Recognised
            base == BaseChunks(pages)
        IN  /\ Len(base) = Len(delims)
            /\ \A i \in 1 .. Len(delims) :
                  /\ SameStructure(base[i].metadata, ClaimedMeta(delims, i))
                  /\ SubSeq(Unprefixed(base[i].text), 1, Len(delims[i].header))
                        = delims[i].header
            /\ \A c \in 1 .. Len(Chunks) :
                  \E i \in 1 .. Len(delims) :
                      /\ SameStructure(Chunks[c].metadata, ClaimedMeta(delims, i))
                      /\ \/ Chunks[c].text = base[i].text
                         \/ /\ IsSub(c)
                            /\ Len(base[i].text) > MAX_CHUNK_SIZE

\* a chapitre delimiter, then an article delimiter, no titre or section before:
\* the article chunk is returned with that chapitre, its own header, no titre
C8_Witness ==
    /\ Returned
    /\ Len(Recognised) >= 3
    /\ \E i \in 1 .. Len(Recognised) - 1 :
          /\ Recognised[i].level = "chapitre"
          /\ Recognised[i + 1].level = "article"
          /\ \A j \in 1 .. i : Recognised[j].level \notin {"titre", "section"}
          /\ \E c \in 1 .. Len(Chunks) :
                /\ Chunks[c].metadata.level = "article"
                /\ Chunks[c].metadata.article = Recognised[i + 1].header
                /\ Chunks[c].metadata.chapitre = Recognised[i].header
                /\ Chunks[c].metadata.titre = << >>

\* the characters of text[start:end], as offsets
SliceOffsets(text, w) ==
    SliceIndex(w.start, Len(text)) .. SliceIndex(w.end, Len(text)) - 1

\* C7 (as claimed): when _split_long_chunk has split a text, every window but
\* the last is followed by a window that starts CHUNK_OVERLAP characters
\* before the cut, the two sharing exactly those CHUNK_OVERLAP characters of
\* the parent text.
C7_Claimed ==
    split_pc = "done" =>
        \A i \in 1 .. Len(split_windows) - 1 :
            /\ SliceIndex(split_windows[i + 1].start, Len(split_text))
                  = split_windows[i].end - CHUNK_OVERLAP
            /\ Cardinality(SliceOffsets(split_text, split_windows[i])
                           \cap SliceOffsets(split_text, split_windows[i + 1]))
                  = CHUNK_OVERLAP

\* ------------------------------------------------------------------------
\* Claims about the store and the pipeline (Spec, SearchSpec)

Stored == { << collection[k].text, collection[k].metadata >> :
                k \in 1 .. Len(collection) }
Indexed == { << bm25.docs[k], bm25.metadatas[k] >> : k \in 1 .. Len(bm25.docs) }
InSync ==
    /\ Indexed = Stored
    /\ Len(bm25.docs) = Len(collection)
    /\ Len(bm25.metadatas) = Len(collection)
    /\ bm25.built = (Len(collection) > 0)

SuccessfulStoreCall(c) ==
    c.ok /\ c.op \in {"construct", "reset", "add_documents", "index_pdf"}

\* C1: the BM25 index holds the documents (texts and metadata) of the
\* collection right after construction, and every successful add_documents
\* (alone or inside index_pdf) and reset leaves it so when it was so before;
\* construction and reset make it so whatever was before.
C1_IndexInSync ==
    /\ InSync
    /\ [][(pc = "idle" /\ pc' = "returned" /\ SuccessfulStoreCall(call'))
            => /\ InSync => InSync'
               /\ call'.op \in {"construct", "reset"} => InSync']_vars

\* chunks were added to a store that held some, and the index follows
C1_Witness ==
    /\ pc = "returned"
    /\ call.op \in {"add_documents", "index_pdf"}
    /\ call.ok /\ ~call.empty_before
    /\ Len(collection) = MaxDocs
    /\ InSync

\* C2: in the state reset() returns in, whatever the state it was called in,
\* get_stats() reports no chunk, no BM25 index and no question asked.
C2_ResetReportsZero ==
    (pc = "returned" /\ call.op = "reset")
    => /\ get_stats.total_chunks = 0
       /\ get_stats.bm25_active = FALSE
       /\ get_stats.questions_posees = 0

\* reset() returned from a store that held chunks
C2_Witness ==
    /\ pc = "returned" /\ call.op = "reset" /\ ~call.empty_before
    /\ get_stats = [total_chunks |-> 0, bm25_active |-> FALSE,
                     questions_posees |-> 0]

SingleArticleFiles == { "article.pdf", "short.pdf" }
RECURSIVE Contains(_, _)
Contains(text, part) ==
    IF Len(text) < Len(part) THEN FALSE
    ELSE SubSeq(text, 1, Len(part)) = part \/ Contains(Tail(text), part)
ArticleHeader == <<"A", "x">>
SharesKeywords(question, file) ==
    Range(_tokenize_french(question))
        \cap Range(_tokenize_french(extract_text_from_pdf(file)[1].text)) # {}

\* C3: after a single-page document that is one article header with its
\* sentence was indexed into an empty store, ask() with a question sharing
\* its keywords returns a non-empty answer and a source whose article field
\* contains the header (the retrieval missing none of the stored chunks and
\* the LLM not replying with an empty text).
C3_Claimed ==
    (/\ pc = "returned" /\ call.op = "ask"
     /\ indexed_alone \in SingleArticleFiles
     /\ SharesKeywords(ask_locals.question, indexed_alone)
     /\ Len(result.sources) = Len(collection)
     /\ ask_locals.results = << >> \/ result.answer # "")
    => /\ result.answer # ""
       /\ \E k \in 1 .. Len(result.sources) :
            Contains(result.sources[k].article, ArticleHeader)

FoundIn(results, text) == \E k \in 1 .. Len(results) : results[k].text = text
ScoreIn(results, text) ==
    results[CHOOSE k \in 1 .. Len(results) : results[k].text = text].score
ClaimedFused(text) ==
    (IF FoundIn(result.semantic_results, text)
     THEN ScoreIn(result.semantic_results, text) * SEMANTIC_WEIGHT ELSE 0)
    + (IF FoundIn(result.bm25_results, text)
       THEN ScoreIn(result.bm25_results, text) * BM25_WEIGHT ELSE 0)

\* C9: every result of search_hybrid has the fused score s * semantic_weight
\* + b * bm25_weight of the scores s and b its chunk got from the semantic
\* and the lexical search (the term of a search that did not return it left
\* out), also when stored chunks share their first characters.
C9_Claimed ==
    (pc = "returned" /\ call.op = "search_hybrid")
    => \A k \in 1 .. Len(result.results) :
          result.results[k].score = ClaimedFused(result.results[k].text)

ChapterKeys(results) == { chapter_key(results[k]) : k \in 1 .. Len(results) }

\* C10: when the merged candidates of search_multi_query carry at least
\* max_total distinct chapter keys, it returns exactly max_total of them,
\* with pairwise distinct chapter keys, each a highest-scoring candidate of
\* its chapter key, in descending score order.
C10_Claimed ==
    (/\ pc = "returned" /\ call.op = "search_multi_query"
     /\ Cardinality(ChapterKeys(result.candidates)) >= result.max_total)
    => /\ Len(result.results) = result.max_total
       /\ Cardinality(ChapterKeys(result.results)) = Len(result.results)
       /\ \A k \in 1 .. Len(result.results) :
            /\ result.results[k] \in Range(result.candidates)
            /\ \A c \in Range(result.candidates) :
                  chapter_key(c) = chapter_key(result.results[k])
                      => c.score <= result.results[k].score
       /\ \A k \in 1 .. Len(result.results) - 1 :
            result.results[k].score >= result.results[k + 1].score

\* ------------------------------------------------------------------------
\* Claims about the lexical search (SearchSpec)
Bm25Returned == pc = "returned" /\ call.op = "search_bm25"

\* how many elements of a sequence of texts are the text t
CountOf(texts, t) == Cardinality({ k \in 1 .. Len(texts) : texts[k] = t })

ResultTexts(results) == [k \in 1 .. Len(results) |-> results[k].text]

\* at most N results, each of positive raw score, in non-increasing order of
\* raw score, and no indexed document left out scores higher than one kept
Bm25TopPositive ==
    LET r == result.results
        raw == result.raw
        n == OrTopK(result.n_results)
        positive == { k \in 1 .. Len(bm25.docs) : raw[bm25.docs[k]] > 0 }
    IN  /\ Len(r) <= n
        /\ Len(r) = (IF Cardinality(positive) < n
                     THEN Cardinality(positive) ELSE n)
        /\ \A k \in 1 .. Len(r) :
              /\ raw[r[k].text] > 0
              /\ CountOf(ResultTexts(r), r[k].text)
                    <= CountOf(bm25.docs, r[k].text)
              /\ \A j \in 1 .. k - 1 : raw[r[j].text] >= raw[r[k].text]
        /\ \A t \in Range(bm25.docs) :
              CountOf(ResultTexts(r), t) < CountOf(bm25.docs, t)
                => \A k \in 1 .. Len(r) : raw[t] <= raw[r[k].text]

\* C11 (as amended): on a non-empty lexical index search_bm25 returns at most
\* N results (N = n_results, TOP_K_RESULTS when it is 0), all of strictly
\* positive raw score, in non-increasing score order, the highest-scoring
\* documents; the first has normalised score 1.0 and every result has its raw
\* score divided by the top raw score and rounded to 4 decimal places.
C11_Bm25Rounded ==
    (Bm25Returned /\ bm25.built)
        => /\ Bm25TopPositive
           /\ result.results # << >> => result.results[1].score = 10000
           /\ \A k \in 1 .. Len(result.results) :
                 result.results[k].score =
                    Ratio4(result.raw[result.results[k].text],
                           result.raw[result.results[1].text])

\* three documents indexed, two asked and kept, the second at a third
\* of the top score, a document of no positive score left out
C11_Witness ==
    /\ Bm25Returned
    /\ Len(bm25.docs) = MaxStored
    /\ result.n_results = 2
    /\ Len(result.results) = 2
    /\ result.results[2].score = 3333
    /\ \E t \in Range(bm25.docs) : result.raw[t] <= 0

\* C11 (as stated): ... and every other result has its raw score divided by
\* the top raw score.
C11_Claimed ==
    (Bm25Returned /\ bm25.built)
        => /\ Bm25TopPositive
           /\ result.results # << >> => result.results[1].score = 10000
           /\ \A k \in 1 .. Len(result.results) :
                 result.results[k].score * result.raw[result.results[1].text]
                    = 10000 * result.raw[result.results[k].text]

\* the words of a query after lowercasing and punctuation removal
QueryWords(query) == WordsFrom(Normalised(query), 1, << >>)

OnlyShortWords(query) ==
    \A k \in 1 .. Len(QueryWords(query)) :
        Len(QueryWords(query)[k]) < MIN_TOKEN_LEN

\* C12: for every store content, a lexical search whose query holds only
\* words shorter than the minimum token length, after lowercasing and
\* punctuation removal, returns an empty list.
C12_ShortQueryEmpty ==
    (Bm25Returned /\ OnlyShortWords(result.query)) => result.results = << >>

\* a query of two short words over a full index whose documents hold them
C12_Witness ==
    /\ Bm25Returned
    /\ result.query = <<"A", ".", "x">>
    /\ Len(QueryWords(result.query)) = 2
    /\ OnlyShortWords(result.query)
    /\ Len(bm25.docs) = MaxStored
    /\ \E t \in Range(bm25.docs) : Contains(t, <<"x">>)
    /\ result.results = << >>

\* ------------------------------------------------------------------------
\* Claims about ask and index_pdf (Spec)
AskReturned == pc = "returned" /\ call.op = "ask"

NothingFound == ask_locals.results = << >>

FixedAnswer == result = [answer |-> NoDocumentsAnswer, sources |-> << >>]

\* C13 (as amended): when an ask retrieves nothing it returns the fixed
\* no-passage answer with an empty sources list and makes no
\* answer-generation LLM call; its one LLM call is the decomposition request
\* made before retrieval.
C13_NoGenerationCall ==
    (AskReturned /\ NothingFound)
        => FixedAnswer /\ ask_locals.llm_calls = << "decompose" >>

\* documents are stored and neither retrieval finds one of them
C13_Witness ==
    /\ AskReturned
    /\ NothingFound
    /\ Len(collection) = MaxDocs
    /\ FixedAnswer
    /\ ask_locals.llm = "none"

\* C13 (as stated): ... and no LLM call is made during that ask call.
C13_Claimed ==
    (AskReturned /\ NothingFound)
        => FixedAnswer /\ ask_locals.llm_calls = << >>

\* the explanatory message of each failure kind
FailureMessage(kind) ==
    CASE kind = "connection_error" -> "cannot connect"
      [] kind = "timeout" -> "too slow"
      [] kind = "error" -> "llm error"

GenerationCalls ==
    Cardinality({ k \in 1 .. Len(ask_locals.llm_calls) :
                    ask_locals.llm_calls[k] = "generate" })

\* C14: when the answer-generation request of an ask fails (connection
\* failure, timeout, any other error) it is made once only and ask returns
\* normally: the answer is the message of that failure kind and the sources
\* retrieved for the question are returned.
C14_FailureBecomesAnswer ==
    (pc = "returned" /\ call.op = "ask" /\ ask_locals.llm \in LlmFailures)
        => /\ call.ok
           /\ GenerationCalls = 1
           /\ result.answer = FailureMessage(ask_locals.llm)
           /\ result.sources # << >>
           /\ result.sources = _format_sources(ask_locals.results)

\* a timeout after two passages were retrieved
C14_Witness ==
    /\ AskReturned
    /\ ask_locals.llm = "timeout"
    /\ result.answer = "too slow"
    /\ Len(result.sources) >= 2

\* the first n elements of a sequence, n at most MULTI_QUERY_COUNT
CappedPrefix(queries) ==
    SubSeq(queries, 1, IF Len(queries) < MULTI_QUERY_COUNT
                       THEN Len(queries) ELSE MULTI_QUERY_COUNT)

\* C15: when query decomposition fails (request error or timeout, no JSON
\* list, malformed JSON, empty list) _decompose_question returns an empty
\* list and ask retrieves with the original question only; when it succeeds
\* the query list is the original question followed by at most
\* MULTI_QUERY_COUNT sub-queries.
C15_DecompositionFallback ==
    /\ pc = "decomposed"
        => /\ ask_locals.reply.kind \in DecompositionFailures
                => ask_locals.sub_queries = << >>
           /\ ask_locals.reply.kind = "list"
                => ask_locals.sub_queries = CappedPrefix(ask_locals.reply.queries)
    /\ (pc \in {"queried", "retrieved"} \/ AskReturned)
        => /\ ask_locals.queries[1] = ask_locals.question
           /\ Len(ask_locals.queries) <= 1 + MULTI_QUERY_COUNT
           /\ ask_locals.reply.kind = "failed"
                => ask_locals.queries = << ask_locals.question >>
           /\ ask_locals.reply.kind = "list"
                => /\ Len(ask_locals.queries) >= 2
                   /\ ask_locals.queries =
                        << ask_locals.question >> \o ask_locals.sub_queries

\* a failed decomposition, and passages found with the question alone
C15_Witness ==
    /\ AskReturned
    /\ ask_locals.reply.kind = "failed"
    /\ ask_locals.queries = << ask_locals.question >>
    /\ ask_locals.results # << >>
    /\ call.ok

MissingFileCall ==
    pc = "returned" /\ call.op = "index_pdf" /\ Missing(call.file)

\* C16 (as amended): under decomposition failure, retrieval yielding nothing
\* and LLM call failure ask does not raise, it returns an answer and a
\* sources list; on a missing file index_pdf raises FileNotFoundError to its
\* caller.
C16_AskNeverRaises ==
    /\ AskReturned => call.ok /\ DOMAIN result = {"answer", "sources"}
    /\ MissingFileCall
        => ~call.ok /\ result = [raised |-> "FileNotFoundError"]

\* the decomposition failed and the generation request failed
C16_Witness ==
    /\ AskReturned
    /\ ask_locals.reply.kind = "failed"
    /\ ask_locals.llm = "error"
    /\ call.ok
    /\ result.answer = "llm error"

\* C16 (as stated): under every documented failure condition (missing file,
\* decomposition failure, retrieval yielding nothing, LLM call failure)
\* neither index_pdf nor ask raises to its caller.
C16_Claimed ==
    (AskReturned \/ MissingFileCall) => call.ok

FailedIndexPdf ==
    pc = "idle" /\ pc' = "returned" /\ call'.op = "index_pdf" /\ ~call'.ok

\* C17: if an index_pdf call fails (missing file at extraction, or an error
\* raised while a batch of chunks is being added to the store), the semantic
\* store and the lexical index both hold exactly the documents they held
\* before the call.
C17_Claimed ==
    [][FailedIndexPdf => (collection' = collection /\ bm25' = bm25)]_vars

\* ------------------------------------------------------------------------
\* Claims about the upload loop (UploadSpec)
UploadOver == pc = "idle" /\ upload.round > 0

Succeeded == { k \in 1 .. Len(upload.outcomes) : upload.outcomes[k].ok }
Failed == { k \in 1 .. Len(upload.outcomes) : ~upload.outcomes[k].ok }

\* the chunks index_pdf makes of a file
ChunksOfFile(file) == chunk_document(extract_text_from_pdf(file)).chunks

PagesOfFile(file) == Len(extract_text_from_pdf(file))
ChunkCountOfFile(file) == Len(ChunksOfFile(file))

\* the chunks, or the pages, of the files among the first k that were indexed
RECURSIVE SumOfSucceeded(_, _)
SumOfSucceeded(k, what) ==
    IF k = 0 THEN 0
    ELSE SumOfSucceeded(k - 1, what)
            + (IF k \notin Succeeded THEN 0
               ELSE IF what = "chunks" THEN ChunkCountOfFile(upload.files[k])
               ELSE PagesOfFile(upload.files[k]))

\* the names of the files whose indexing failed, from the k-th on
RECURSIVE FailedFrom(_)
FailedFrom(k) ==
    IF k > Len(upload.files) THEN << >>
    ELSE (IF k \in Failed THEN << upload.files[k] >> ELSE << >>)
            \o FailedFrom(k + 1)

\* C18: in an upload of several files a failure while indexing one file does
\* not abort the batch: every file is tried, every other file is indexed, the
\* failure is reported for the failing files only, and only the files that
\* were indexed are added to the list of indexed files and to the page and
\* chunk totals.
C18_FailureIsolated ==
    UploadOver
        => /\ Len(upload.outcomes) = Len(upload.files)
           /\ \A k \in 1 .. Len(upload.files) :
                 /\ upload.outcomes[k].file = upload.files[k]
                 /\ Missing(upload.files[k]) => k \in Failed
                 /\ k \in Succeeded =>
                       \A c \in 1 .. ChunkCountOfFile(upload.files[k]) :
                          << ChunksOfFile(upload.files[k])[c].text,
                             ChunksOfFile(upload.files[k])[c].metadata >>
                                \in Stored
           /\ upload.errors = FailedFrom(1)
           /\ Range(session.indexed_files) =
                    Range(upload.indexed_before)
                        \cup { upload.files[k] : k \in Succeeded }
           /\ upload.total_chunks = 
                    SumOfSucceeded(Len(upload.files), "chunks")
           /\ upload.total_pages = 
                    SumOfSucceeded(Len(upload.files), "pages")
           /\ Len(collection) >= upload.count_before + upload.total_chunks

\* a failing file between two files that are indexed
C18_Witness ==
    /\ UploadOver
    /\ Len(upload.files) = 3
    /\ Succeeded = {1, 3}
    /\ upload.errors = << upload.files[2] >>
    /\ upload.total_chunks > 0
    /\ Len(session.indexed_files) = 2

\* ------------------------------------------------------------------------
\* Claims about the multi-query search (SearchSpec)
MultiQueryReturned == pc = "returned" /\ call.op = "search_multi_query"

\* every result search_hybrid gave for one of the queries
PerQueryResults(per_query) ==
    UNION { Range(per_query[q]) : q \in 1 .. Len(per_query) }

Fingerprints(results) == { text_key(r.text) : r \in results }

\* C19: search_multi_query returns, for every queries list and every
\* max_total >= 0, exactly min(max_total, C) results, C the number of
\* distinct fingerprints among all per-query hybrid results; no candidate is
\* returned twice and every result is a candidate.
C19_Claimed ==
    MultiQueryReturned
        => LET C == Cardinality(Fingerprints(PerQueryResults(result.per_query)))
               r == result.results
           IN  /\ Len(r) = (IF result.max_total < C THEN result.max_total ELSE C)
               /\ Cardinality(Fingerprints(Range(r))) = Len(r)
               /\ Range(r) \subseteq Range(result.candidates)

\* the highest score the results of the queries give a fingerprint
BestScore(per_query, key) ==
    SetMax({ r.score : r \in { x \in PerQueryResults(per_query) :
                                    text_key(x.text) = key } })

Reversed(seq) == [k \in 1 .. Len(seq) |-> seq[Len(seq) + 1 - k]]

\* the score of each fingerprint in a list of candidates
ScoreOfKey(candidates) ==
    [key \in Fingerprints(Range(candidates)) |->
        (CHOOSE c \in Range(candidates) : text_key(c.text) = key).score]

Collected == pc = "collected" \/ MultiQueryReturned

\* C20: in search_multi_query the merged candidates hold one entry per
\* fingerprint, its score the highest fused score the fingerprint obtained
\* over all the queries, whatever the order of the queries.
C20_BestPerFingerprint ==
    (Collected /\ Len(collection) > 0)
        => /\ Cardinality(Fingerprints(Range(result.candidates)))
                = Len(result.candidates)
           /\ Fingerprints(Range(result.candidates))
                = Fingerprints(PerQueryResults(result.per_query))
           /\ \A c \in Range(result.candidates) :
                 c.score = BestScore(result.per_query, text_key(c.text))
           /\ ScoreOfKey(CandidatesOf(Reversed(result.per_query)))
                = ScoreOfKey(result.candidates)

\* two queries, a fingerprint scored higher by the second and another scored
\* higher by the first
C20_Witness ==
    /\ pc = "collected"
    /\ Len(result.per_query) = 2
    /\ \E a \in Range(result.per_query[1]), b \in Range(result.per_query[2]) :
          /\ text_key(a.text) = text_key(b.text)
          /\ a.score < b.score
    /\ \E a \in Range(result.per_query[1]), b \in Range(result.per_query[2]) :
          /\ text_key(a.text) = text_key(b.text)
          /\ a.score > b.score

\* ------------------------------------------------------------------------
\* Claims about the hybrid search (SearchSpec)
HybridReturned == pc = "returned" /\ call.op = "search_hybrid"

\* what the fusion makes of the 2k candidates of each search
MergedOfRequested ==
    Values(MergeBm25(MergeSemantic(<< >>, result.semantic_results, 1),
                     result.bm25_results, 1))

\* C21: search_hybrid(query, k) asks the semantic and the lexical search for
\* 2k candidates each and returns at most k results, the top k of the merged
\* candidates: in non-increasing order of fused score, no two of the same
\* fingerprint, and no merged candidate left out scores higher than one
\* returned.
C21_TopKOfMerged ==
    HybridReturned
        => LET k == OrTopK(result.n_results)
               r == result.results
               merged == MergedOfRequested
           IN  /\ Len(result.semantic_results) <= 2 * k
               /\ Len(result.bm25_results) <= 2 * k
               /\ Len(r) = (IF Len(merged) < k THEN Len(merged) ELSE k)
               /\ \A j \in 1 .. Len(r) - 1 : r[j].score >= r[j + 1].score
               /\ Cardinality(Fingerprints(Range(r))) = Len(r)
               /\ Range(r) \subseteq Range(merged)
               /\ \A m \in Range(merged) \ Range(r) :
                     \A j \in 1 .. Len(r) : m.score <= r[j].score

\* k = 1 and the best merged candidate is the first of neither search
C21_Witness ==
    /\ HybridReturned
    /\ result.n_results = 1
    /\ Len(result.semantic_results) = 2
    /\ Len(result.bm25_results) = 2
    /\ Len(result.results) = 1
    /\ result.results[1].text # result.semantic_results[1].text
    /\ result.results[1].text # result.bm25_results[1].text

\* ------------------------------------------------------------------------
\* Claims about the identifiers of the store (Spec)
\* C22: after any sequence of add_documents and reset calls on one store the
\* stored documents have pairwise distinct identifiers: every add numbers its
\* documents from the stored count on, which no stored document carries.
C22_DistinctIds ==
    /\ \A j, k \in 1 .. Len(collection) :
          j # k => collection[j].id # collection[k].id
    /\ \A k \in 1 .. Len(collection) : collection[k].id = k - 1

\* documents were added to a store that held some
C22_Witness ==
    /\ pc = "returned"
    /\ call.op = "add_documents"
    /\ call.ok
    /\ ~call.empty_before
    /\ Len(collection) >= 2
    /\ collection[Len(collection)].id = Len(collection) - 1

\* ------------------------------------------------------------------------
\* Claims about the page of a chunk (PageSpec)
\* the offsets of the buffer at which a text is found
OffsetsOf(text, buffer) ==
    { o \in 0 .. Len(buffer) - Len(text) :
        SubSeq(buffer, o + 1, o + Len(text)) = text }

\* the page whose recorded start is the greatest one not exceeding the offset
PageAt(offset, page_map) ==
    LET started == { k \in 1 .. Len(page_map) :
                        page_map[k].start_pos <= offset }
    IN  IF started = {} THEN 1
        ELSE page_map[CHOOSE k \in started :
                        \A m \in started :
                            page_map[m].start_pos <= page_map[k].start_pos
                     ].page_number

\* C23: for every chunk chunk_document produces, in structural mode and in
\* paragraph mode, metadata.page is the page at the offset of the buffer at
\* which the text of the chunk starts (here: at one of the offsets at which
\* the text is found in the buffer).
C23_Claimed ==
    Returned
        => \A i \in 1 .. Len(Chunks) :
              LET found == OffsetsOf(Unprefixed(Chunks[i].text),
                                     FullTextOf(pages))
              IN  found # {}
                    => \E o \in found :
                          Chunks[i].metadata.page
                              = PageAt(o, PageMapOf(pages))

\* ------------------------------------------------------------------------
\* Claims about the termination of _split_long_chunk (SplitSpec)

\* C24 (as claimed): _split_long_chunk returns on every text it is called
\* on, `start` being strictly greater at each iteration than at the one
\* before, also when the last break lies within CHUNK_OVERLAP characters of
\* the start of the window.
C24_Claimed ==
    /\ _split_long_chunk(SplitChunk).returns
    /\ \A i \in 1 .. Len(split_windows) - 1 :
          split_windows[i + 1].start > split_windows[i].start

\* ------------------------------------------------------------------------
\* Claims about several sessions over one collection (SessionsSpec)

\* C25 (as claimed): with two sessions over the same persisted collection,
\* once an add_documents or a reset of one session has returned the lexical
\* index of every session (and so its bm25_active) is the index of the
\* documents the collection holds, and no search or get_stats of a session
\* raises.
C25_Claimed ==
    /\ (pc = "returned" /\ call.op \in {"add_documents", "reset"} /\ call.ok)
          => \A s \in DOMAIN stores : stores[s].bm25 = bm25_of(collection)
    /\ (pc = "returned" /\ call.op \in {"search_hybrid", "get_stats"})
          => call.ok

\* ------------------------------------------------------------------------
\* Claims about the fallback search of ask (RetrieveSpec)
Retrieved == pc = "returned" /\ call.op = "retrieve"

\* C26: whenever search_multi_query over a list of queries that starts with
\* the question returns no result, search(question, n) on the same store
\* returns no result either, the semantic index giving the nearest documents
\* first and the same ones for the same question.
C26_FallbackFindsNothing ==
    (Retrieved /\ result.multi_query = << >>) => result.fallback = << >>

\* nothing retrieved over a store of more documents than one hybrid search
\* asks the semantic index for, the plain search asking for all of them
C26_Witness ==
    /\ Retrieved
    /\ result.multi_query = << >>
    /\ result.fallback = << >>
    /\ Len(collection) > 2 * result.n_results_per_query
    /\ result.n >= Len(collection)

\* ------------------------------------------------------------------------
\* Claims about the conversation history (Spec)

\* C27: the history grows by exactly one entry in every ask that has
\* retrieved a passage, whatever the LLM request comes to; an ask that
\* retrieves none, index_pdf and get_stats leave it as it is; nothing else
\* changes it but reset and construction, which empty it.  So the
\* questions_posees of get_stats is the number of asks since then that
\* retrieved a passage.
C27_HistoryCountsAnswers ==
    [][/\ (pc = "retrieved" /\ pc' = "returned")
            => /\ call'.op = "ask"
               /\ ask_locals'.results # << >>
               /\ history' = history + 1
       /\ (pc' = "returned" /\ call'.op = "ask" /\ ask_locals'.results = << >>)
            => history' = history
       /\ (pc' = "returned" /\ call'.op \in {"index_pdf", "get_stats"})
            => history' = history
       /\ (pc' = "returned" /\ call'.op = "get_stats")
            => result'.questions_posees = history
       /\ (pc' = "returned" /\ call'.op \in {"reset", "construct"})
            => history' = 0
       /\ history' # history
            => \/ pc = "retrieved"
               \/ call'.op \in {"reset", "construct"}]_vars

\* the second ask that retrieved passages has returned, its LLM request
\* having failed
C27_Witness ==
    /\ AskReturned
    /\ ask_locals.results # << >>
    /\ ask_locals.llm = "error"
    /\ history = 2


====
